---------------------------- MODULE Spec2Model ----------------------------
(***************************************************************************)
(* Tilt-controlled maze game (levels/play page script, src/unnamed/part_003*)
(* with the shared LevelRenderer of src/js/levels/level_cards.js).         *)
(*                                                                         *)
(* Numbers.  The script computes in IEEE doubles; the model computes in    *)
(* fixed point:                                                            *)
(*   lengths      1 unit = 1/1000 px   (PosScale units per px)             *)
(*   velocities   1 unit = 1/10 px/s   (VelScale units per px/s)           *)
(*   times        1 unit = 1 ms                                            *)
(*   unit normals 1 unit = 1/10000     (NormScale)                         *)
(* so that the resolver's bias 0.01 px is 10 units and its 1e-6 px^2       *)
(* slack on squared distances is exactly 1 squared unit.  Every quotient   *)
(* is rounded to the nearest unit, floor() and ceil() are exact.           *)
(***************************************************************************)
EXTENDS Integers, Sequences, FiniteSets, TLC

PosScale == 1000
VelScale == 10
NormScale == 10000
ExpScale == 100000

----------------------------------------------------------------------------
(* Arithmetic helpers                                                      *)

Abs(a) == IF a < 0 THEN -a ELSE a
Min2(a, b) == IF a < b THEN a ELSE b
Max2(a, b) == IF a > b THEN a ELSE b

\* a / b rounded to the nearest integer (b > 0)
RDiv(a, b) == (2 * a + b) \div (2 * b)

\* Math.ceil(a / b) for b > 0
CeilDiv(a, b) == -((-a) \div b)

\* Math.floor(Math.sqrt(n)) by bisection on [lo, hi)
RECURSIVE SqrtSearch(_, _, _)
SqrtSearch(n, lo, hi) ==
    IF hi - lo <= 1 THEN lo
    ELSE LET mid == (lo + hi) \div 2
         IN  IF mid * mid <= n THEN SqrtSearch(n, mid, hi)
                               ELSE SqrtSearch(n, lo, mid)

\* Math.sqrt(n) rounded to the nearest unit
RSqrt(n) ==
    LET f == SqrtSearch(n, 0, 46341)
    IN  IF n - f * f > f THEN f + 1 ELSE f

\* clamp(val, min, max): Math.min(max, Math.max(min, val))
clamp(val, lo, hi) == Min2(hi, Max2(lo, val))

\* Math.exp(-friction * dt) for friction = 1.8 /s and dt = 1..32 ms, in 1/ExpScale
ExpTable ==
    << 99820, 99641, 99461, 99283, 99104, 98926, 98748, 98570,
       98393, 98216, 98039, 97863, 97687, 97511, 97336, 97161,
       96986, 96812, 96638, 96464, 96291, 96117, 95945, 95772,
       95600, 95428, 95256, 95085, 94914, 94743, 94573, 94403 >>

ExpFriction(dt) == ExpTable[dt]

----------------------------------------------------------------------------
(* Levels.  A level is [level |-> number, grid |-> rows of tile symbols];  *)
(* the script's 0-based grid[row][col] is Grid[row + 1][col + 1] here.     *)

\* A rows x cols grid of floor with the given cells overwritten
MakeGrid(rows, cols, cells) ==
    [r \in 1..rows |->
        [c \in 1..cols |->
            IF <<r - 1, c - 1>> \in DOMAIN cells THEN cells[<<r - 1, c - 1>>] ELSE "."]]


\* Faulty variant of isWall that takes every symbol it does not know for a
\* wall: C11 fails for it
isWallUnlessKnown(grid, col, row) ==
    IF grid = <<>> THEN FALSE
    ELSE IF row < 0 \/ col < 0 THEN TRUE
    ELSE IF row >= Len(grid) \/ col >= Len(grid[1]) THEN TRUE
    ELSE grid[row + 1][col + 1] \notin {".", "S", "G"}

\* isWall(col, row) of the script, for the grid of currentLevel (<<>>: no level)
isWall(grid, col, row) ==
    IF grid = <<>> THEN FALSE
    ELSE IF row < 0 \/ col < 0 THEN TRUE
    ELSE IF row >= Len(grid) \/ col >= Len(grid[1]) THEN TRUE
    ELSE grid[row + 1][col + 1] = "#"

\* row.indexOf(sym): 0-based index of the first occurrence, -1 when absent
RECURSIVE IndexFrom(_, _, _)
IndexFrom(row, sym, i) ==
    IF i > Len(row) THEN -1
    ELSE IF row[i] = sym THEN i - 1
    ELSE IndexFrom(row, sym, i + 1)

indexOf(row, sym) == IndexFrom(row, sym, 1)

NoCell == [r |-> -1, c |-> -1]

\* findSpecialCells(grid): every row that holds the symbol overwrites the result
RECURSIVE FindFrom(_, _, _, _)
FindFrom(grid, sym, r, found) ==
    IF r >= Len(grid) THEN found
    ELSE LET i == indexOf(grid[r + 1], sym)
         IN  FindFrom(grid, sym, r + 1, IF i # -1 THEN [r |-> r, c |-> i] ELSE found)

findSpecialCells(grid) ==
    [start |-> FindFrom(grid, "S", 0, NoCell), goal |-> FindFrom(grid, "G", 0, NoCell)]

\* syncBallRadius(cellSize): Math.max(3, Math.min(cellSize * 0.35, cellSize * 0.45))
syncBallRadius(cellSize) ==
    Max2(3 * PosScale, Min2((cellSize * 35) \div 100, (cellSize * 45) \div 100))

----------------------------------------------------------------------------
(* Collision resolver and integrator                                       *)

maxIter == 4
Bias == 10
EpsSq == 1
accelScale == 900
TiltClamp == 50
TiltNorm == 45

\* Faulty variant of the response that stops the ball dead when it moves
\* into the wall: C23 fails for it
removeInwardStop(vx, vy, nx, ny) ==
    IF vx * nx + vy * ny < 0 THEN [vx |-> 0, vy |-> 0] ELSE [vx |-> vx, vy |-> vy]

\* dx / dist for dist = Math.sqrt(distSq) > 0, in 1/NormScale: the square root
\* is taken of distSq scaled up as far as the integers allow, so that the
\* normal has length 1 to 1/NormScale for short distances too
NormBoost(distSq) ==
    IF distSq <= 10 THEN 10000
    ELSE IF distSq <= 1000 THEN 1000
    ELSE IF distSq <= 100000 THEN 100
    ELSE IF distSq <= 10000000 THEN 10
    ELSE 1

Unit(d, distSq) ==
    RDiv(d * NormBoost(distSq) * NormScale,
         RSqrt(distSq * NormBoost(distSq) * NormBoost(distSq)))

\* Faulty variant of the zero-distance normal that points at the farthest
\* edge of the tile: C24 fails for it
mostPenetration(cx, cy, x0, y0, x1, y1) ==
    LET leftPen == Abs(cx - x0)
        rightPen == Abs(x1 - cx)
        topPen == Abs(cy - y0)
        bottomPen == Abs(y1 - cy)
        maxPen == Max2(Max2(leftPen, rightPen), Max2(topPen, bottomPen))
    IN  IF maxPen = leftPen THEN [nx |-> -NormScale, ny |-> 0]
        ELSE IF maxPen = rightPen THEN [nx |-> NormScale, ny |-> 0]
        ELSE IF maxPen = topPen THEN [nx |-> 0, ny |-> -NormScale]
        ELSE [nx |-> 0, ny |-> NormScale]

\* The normal when dist is 0 (the else branch of if (dist > 0)): towards the
\* nearest of the four edges of the tile, tested in the order left, right,
\* top, bottom
leastPenetration(cx, cy, x0, y0, x1, y1) ==
    LET leftPen == Abs(cx - x0)
        rightPen == Abs(x1 - cx)
        topPen == Abs(cy - y0)
        bottomPen == Abs(y1 - cy)
        minPen == Min2(Min2(leftPen, rightPen), Min2(topPen, bottomPen))
    IN  IF minPen = leftPen THEN [nx |-> -NormScale, ny |-> 0]
        ELSE IF minPen = rightPen THEN [nx |-> NormScale, ny |-> 0]
        ELSE IF minPen = topPen THEN [nx |-> 0, ny |-> -NormScale]
        ELSE [nx |-> 0, ny |-> NormScale]

\* The sliding response: if (vDotN < 0) ball.vel -= vDotN * n, for the
\* normal (nx, ny) in 1/NormScale
removeInward(vx, vy, nx, ny) ==
    LET vDotN == vx * nx + vy * ny
    IN  IF vDotN < 0
        THEN [vx |-> vx - RDiv(RDiv(vDotN, NormScale) * nx, NormScale),
              vy |-> vy - RDiv(RDiv(vDotN, NormScale) * ny, NormScale)]
        ELSE [vx |-> vx, vy |-> vy]

\* The body of if (distSq < radSq - 1e-6) once the normal is known: the push
\* by penetration along the normal and the new velocity v; hits keeps, for
\* every collision of the call, the tile, the centre, its distance dist to
\* the tile and ball.vel before, the normal, and the centre and ball.vel after
Collided(st, col, row, dist, nx, ny, penetration, v) ==
    [st EXCEPT
        !.cx = st.cx + RDiv(nx * penetration, NormScale),
        !.cy = st.cy + RDiv(ny * penetration, NormScale),
        !.vx = v.vx, !.vy = v.vy,
        !.collided = TRUE,
        !.hits = Append(@, [col |-> col, row |-> row, dist |-> dist,
                            cx |-> st.cx, cy |-> st.cy, vx |-> st.vx, vy |-> st.vy,
                            nx |-> nx, ny |-> ny,
                            cx1 |-> st.cx + RDiv(nx * penetration, NormScale),
                            cy1 |-> st.cy + RDiv(ny * penetration, NormScale),
                            vx1 |-> v.vx, vy1 |-> v.vy])]

\* One wall tile of the band in resolveCircleCollisions: st is the running
\* (cx, cy, ball.vel, collided) of the pass.
CollideTile(st, col, row, radius, cellSize) ==
    LET x0 == col * cellSize
        y0 == row * cellSize
        x1 == x0 + cellSize
        y1 == y0 + cellSize
        closestX == clamp(st.cx, x0, x1)
        closestY == clamp(st.cy, y0, y1)
        dx == st.cx - closestX
        dy == st.cy - closestY
        distSq == dx * dx + dy * dy
        radSq == radius * radius
        dist == RSqrt(Max2(distSq, 0))
        nx == IF distSq > 0 THEN Unit(dx, distSq)
              ELSE leastPenetration(st.cx, st.cy, x0, y0, x1, y1).nx
        ny == IF distSq > 0 THEN Unit(dy, distSq)
              ELSE leastPenetration(st.cx, st.cy, x0, y0, x1, y1).ny
        penetration == radius - dist + Bias
    IN  IF distSq < radSq - EpsSq
        THEN Collided(st, col, row, dist, nx, ny, penetration,
                      removeInward(st.vx, st.vy, nx, ny))
        ELSE st

\* One tile of the band: if (!isWall(col, row)) continue; seen keeps the
\* tiles that isWall was asked about
VisitTile(st, grid, col, row, radius, cellSize) ==
    IF isWall(grid, col, row)
    THEN CollideTile([st EXCEPT !.seen = @ \cup {<<col, row>>}], col, row, radius, cellSize)
    ELSE [st EXCEPT !.seen = @ \cup {<<col, row>>}]

\* The tiles of rows minRow..maxRow, columns minCol..maxCol, visited row by
\* row; the band is fixed when a pass starts.
RECURSIVE CollideBand(_, _, _, _, _, _, _, _, _)
CollideBand(st, grid, row, col, minCol, maxCol, maxRow, radius, cellSize) ==
    IF row > maxRow THEN st
    ELSE IF col > maxCol
         THEN CollideBand(st, grid, row + 1, minCol, minCol, maxCol, maxRow, radius, cellSize)
    ELSE CollideBand(VisitTile(st, grid, col, row, radius, cellSize),
                     grid, row, col + 1, minCol, maxCol, maxRow, radius, cellSize)

\* Faulty variant of a pass whose band of tiles is not clipped to the grid:
\* C25 fails for it
CollidePassUnclipped(st, grid, rows, cols, radius, cellSize) ==
    LET minRow == (st.cy - radius) \div cellSize
        maxRow == (st.cy + radius) \div cellSize
        minCol == (st.cx - radius) \div cellSize
        maxCol == (st.cx + radius) \div cellSize
    IN  CollideBand([st EXCEPT !.collided = FALSE], grid, minRow, minCol,
                    minCol, maxCol, maxRow, radius, cellSize)

\* One pass (one value of iter) of resolveCircleCollisions
CollidePass(st, grid, rows, cols, radius, cellSize) ==
    LET minRow == Max2(0, (st.cy - radius) \div cellSize)
        maxRow == Min2(rows - 1, (st.cy + radius) \div cellSize)
        minCol == Max2(0, (st.cx - radius) \div cellSize)
        maxCol == Min2(cols - 1, (st.cx + radius) \div cellSize)
    IN  CollideBand([st EXCEPT !.collided = FALSE], grid, minRow, minCol,
                    minCol, maxCol, maxRow, radius, cellSize)

RECURSIVE CollideIter(_, _, _, _, _, _, _)

\* The end of one pass: if (!collided) break, else the next pass; passes
\* keeps whether each pass of the call collided
CollideNext(after, iter, grid, rows, cols, radius, cellSize) ==
    IF ~after.collided
    THEN [after EXCEPT !.iters = iter + 1, !.passes = Append(@, FALSE)]
    ELSE CollideIter([after EXCEPT !.passes = Append(@, TRUE)],
                     iter + 1, grid, rows, cols, radius, cellSize)

\* for (let iter = 0; iter < maxIter; iter++)
CollideIter(st, iter, grid, rows, cols, radius, cellSize) ==
    IF iter >= maxIter THEN [st EXCEPT !.iters = iter]
    ELSE CollideNext(CollidePass(st, grid, rows, cols, radius, cellSize),
                     iter, grid, rows, cols, radius, cellSize)

\* The final clamp of resolveCircleCollisions into the playfield
clampToField(st, radius, cellSize, rows, cols) ==
    [x |-> clamp(st.cx, radius, cols * cellSize - radius),
     y |-> clamp(st.cy, radius, rows * cellSize - radius),
     vx |-> st.vx, vy |-> st.vy, iters |-> st.iters, collided |-> st.collided,
     hits |-> st.hits, passes |-> st.passes, seen |-> st.seen]

\* resolveCircleCollisions(nextX, nextY, radius, cellSize) with ball.vel = (vx, vy),
\* renderInfo = (rows, cols) and the grid of currentLevel: the resolved position,
\* ball.vel afterwards, the number of passes made, whether the last one
\* collided, and the call's history (hits, passes, seen).
resolveCircleCollisions(nextX, nextY, vx, vy, radius, cellSize, grid, rows, cols) ==
    clampToField(CollideIter([cx |-> nextX, cy |-> nextY, vx |-> vx, vy |-> vy,
                              collided |-> FALSE, iters |-> 0,
                              hits |-> <<>>, passes |-> <<>>, seen |-> {}],
                             0, grid, rows, cols, radius, cellSize),
                 radius, cellSize, rows, cols)

\* computeAcceleration(): the last tilt acceleration when the sensor is enabled
\* and has delivered a reading, (0, 0) otherwise
computeAcceleration(sensor) ==
    IF sensor.enabled /\ sensor.available
    THEN [ax |-> sensor.accel.x, ay |-> sensor.accel.y]
    ELSE [ax |-> 0, ay |-> 0]

keyAccel == 700

\* Faulty variant of the keyboard page's computeAcceleration in which the
\* right and down keys override left and up: C13 fails for it
computeAccelerationKeyOverrides(sensor, keys) ==
    LET tilt == computeAcceleration(sensor)
    IN  [ax |-> tilt.ax + (IF keys.right THEN keyAccel
                           ELSE IF keys.left THEN -keyAccel ELSE 0),
         ay |-> tilt.ay + (IF keys.down THEN keyAccel
                           ELSE IF keys.up THEN -keyAccel ELSE 0)]

\* computeAcceleration() of the keyboard variant of the page
\* (src/js/levels/render_game.js): the tilt part as above, then keyAccel
\* subtracted or added for each held direction key
computeAccelerationWithKeys(sensor, keys) ==
    LET tilt == computeAcceleration(sensor)
    IN  [ax |-> tilt.ax - (IF keys.left THEN keyAccel ELSE 0)
                        + (IF keys.right THEN keyAccel ELSE 0),
         ay |-> tilt.ay - (IF keys.up THEN keyAccel ELSE 0)
                        + (IF keys.down THEN keyAccel ELSE 0)]

\* The sub-step loop of stepPhysics: b is (x, y, vx, vy, subs, moves, vx0, vy0),
\* subs the positions stored in ball.pos at the end of each sub-step so far,
\* (vx0, vy0) the velocity right after the damped update.
\* ball.pos.x = resolved.x; ball.pos.y = resolved.y at the end of a sub-step
\* moves keeps the tentative displacement (nextX - ball.pos.x, nextY - ball.pos.y)
\* of each sub-step
Moved(b, nextX, nextY, resolved) ==
    [x |-> resolved.x, y |-> resolved.y, vx |-> resolved.vx, vy |-> resolved.vy,
     subs |-> Append(b.subs, <<resolved.x, resolved.y>>),
     moves |-> Append(b.moves, <<nextX - b.x, nextY - b.y>>),
     vx0 |-> b.vx0, vy0 |-> b.vy0]

\* One sub-step from b to the tentative position (nextX, nextY)
SubStep(b, nextX, nextY, radius, cellSize, grid, rows, cols) ==
    Moved(b, nextX, nextY,
          resolveCircleCollisions(nextX, nextY, b.vx, b.vy, radius, cellSize,
                                  grid, rows, cols))

RECURSIVE SubSteps(_, _, _, _, _, _, _, _, _)
SubSteps(b, i, steps, dt, radius, cellSize, grid, rows, cols) ==
    IF i >= steps THEN b
    ELSE SubSteps(SubStep(b, b.x + RDiv(b.vx * dt * PosScale, VelScale * 1000 * steps),
                             b.y + RDiv(b.vy * dt * PosScale, VelScale * 1000 * steps),
                          radius, cellSize, grid, rows, cols),
                  i + 1, steps, dt, radius, cellSize, grid, rows, cols)

\* Faulty variant of the sub-step count that rounds down: C22 fails for it
SubStepCountFloor(vx, vy, dt, cellSize) ==
    LET speed == RSqrt(vx * vx + vy * vy)
        maxTravelPerSubStep == (cellSize * 45) \div 100
    IN  Max2(1, (speed * dt * PosScale)
                    \div (VelScale * 1000 * Max2(1 * PosScale, maxTravelPerSubStep)))

\* The number of sub-steps of a frame:
\* Math.max(1, Math.ceil(speed * dt / Math.max(1, cellSize * 0.45)))
SubStepCount(vx, vy, dt, cellSize) ==
    LET speed == RSqrt(vx * vx + vy * vy)
        maxTravelPerSubStep == (cellSize * 45) \div 100
    IN  Max2(1, CeilDiv(speed * dt * PosScale,
                        VelScale * 1000 * Max2(1 * PosScale, maxTravelPerSubStep)))

\* stepPhysics(dt) up to the goal test: damped velocity update, then the
\* sub-stepped position update through the resolver.
Integrate(b, acc, dt, radius, cellSize, grid, rows, cols) ==
    LET vx1 == RDiv((b.vx + RDiv(acc.ax * VelScale * dt, 1000)) * ExpFriction(dt), ExpScale)
        vy1 == RDiv((b.vy + RDiv(acc.ay * VelScale * dt, 1000)) * ExpFriction(dt), ExpScale)
        steps == SubStepCount(vx1, vy1, dt, cellSize)
    IN  SubSteps([x |-> b.x, y |-> b.y, vx |-> vx1, vy |-> vy1, subs |-> <<>>,
                  moves |-> <<>>, vx0 |-> vx1, vy0 |-> vy1],
                 0, steps, dt, radius, cellSize, grid, rows, cols)

----------------------------------------------------------------------------
(* The integrator of the keyboard page (src/js/levels/render_game.js): each *)
(* sub-step moves the ball along x, then along y, and stops it at the face  *)
(* of a wall tile that its leading edge would enter                         *)

\* The number of sub-steps of a frame on the keyboard page: speed is
\* Math.max(Math.abs(ball.vel.x), Math.abs(ball.vel.y))
SubStepCountSwept(vx, vy, dt, cellSize) ==
    LET speed == Max2(Abs(vx), Abs(vy))
        maxTravelPerSubStep == (cellSize * 45) \div 100
    IN  Max2(1, CeilDiv(speed * dt * PosScale,
                        VelScale * 1000 * Max2(1 * PosScale, maxTravelPerSubStep)))

\* The horizontal move of a sub-step from (x, y) with ball.vel.x = vx to the
\* tentative nextX: the column of the leading edge is tested in the rows the
\* ball touches; (pos: nextX before the clamp, vel: ball.vel.x afterwards,
\* hit, tile: the column tested)
SweepX(x, y, vx, nextX, radius, cellSize, grid, rows) ==
    LET minRow == Max2(0, (y - radius) \div cellSize)
        maxRow == Min2(rows - 1, (y + radius) \div cellSize)
        col == IF vx > 0 THEN (nextX + radius) \div cellSize
               ELSE (nextX - radius) \div cellSize
        hit == vx # 0 /\ \E r \in minRow..maxRow : isWall(grid, col, r)
    IN  [pos |-> IF ~hit THEN nextX
                 ELSE IF vx > 0 THEN col * cellSize - radius - Bias
                 ELSE (col + 1) * cellSize + radius + Bias,
         vel |-> IF hit THEN 0 ELSE vx, hit |-> hit, tile |-> col]

\* The vertical move of a sub-step, after ball.pos.x has been stored
SweepY(x, y, vy, nextY, radius, cellSize, grid, cols) ==
    LET minCol == Max2(0, (x - radius) \div cellSize)
        maxCol == Min2(cols - 1, (x + radius) \div cellSize)
        row == IF vy > 0 THEN (nextY + radius) \div cellSize
               ELSE (nextY - radius) \div cellSize
        hit == vy # 0 /\ \E c \in minCol..maxCol : isWall(grid, c, row)
    IN  [pos |-> IF ~hit THEN nextY
                 ELSE IF vy > 0 THEN row * cellSize - radius - Bias
                 ELSE (row + 1) * cellSize + radius + Bias,
         vel |-> IF hit THEN 0 ELSE vy, hit |-> hit, tile |-> row]

\* The ball after both moves of a sub-step: from is the ball before it, mx
\* and my the two moves, (dx, dy) the tentative displacement
SweptTo(b, mx, my, dx, dy, radius, cellSize, rows, cols) ==
    [x |-> clamp(mx.pos, radius, cols * cellSize - radius),
     y |-> clamp(my.pos, radius, rows * cellSize - radius),
     vx |-> mx.vel, vy |-> my.vel,
     subs |-> Append(b.subs, <<clamp(mx.pos, radius, cols * cellSize - radius),
                               clamp(my.pos, radius, rows * cellSize - radius)>>),
     moves |-> Append(b.moves, <<dx, dy>>),
     sweeps |-> Append(b.sweeps, [from |-> [x |-> b.x, y |-> b.y, vx |-> b.vx, vy |-> b.vy],
                                  mx |-> mx, my |-> my]),
     vx0 |-> b.vx0, vy0 |-> b.vy0]

\* The vertical move, made from the x that the horizontal move stored
SweptThenY(b, mx, dx, dy, radius, cellSize, grid, rows, cols) ==
    SweptTo(b, mx,
            SweepY(clamp(mx.pos, radius, cols * cellSize - radius), b.y, b.vy,
                   b.y + dy, radius, cellSize, grid, cols),
            dx, dy, radius, cellSize, rows, cols)

\* One sub-step: dx = ball.vel.x * stepDt, dy = ball.vel.y * stepDt
SweptSubStep(b, dx, dy, radius, cellSize, grid, rows, cols) ==
    SweptThenY(b, SweepX(b.x, b.y, b.vx, b.x + dx, radius, cellSize, grid, rows),
               dx, dy, radius, cellSize, grid, rows, cols)

RECURSIVE SweptSubSteps(_, _, _, _, _, _, _, _, _)
SweptSubSteps(b, i, steps, dt, radius, cellSize, grid, rows, cols) ==
    IF i >= steps THEN b
    ELSE SweptSubSteps(SweptSubStep(b, RDiv(b.vx * dt * PosScale, VelScale * 1000 * steps),
                                       RDiv(b.vy * dt * PosScale, VelScale * 1000 * steps),
                                    radius, cellSize, grid, rows, cols),
                       i + 1, steps, dt, radius, cellSize, grid, rows, cols)

\* stepPhysics(dt) of the keyboard page up to the goal test
IntegrateSwept(b, acc, dt, radius, cellSize, grid, rows, cols) ==
    LET vx1 == RDiv((b.vx + RDiv(acc.ax * VelScale * dt, 1000)) * ExpFriction(dt), ExpScale)
        vy1 == RDiv((b.vy + RDiv(acc.ay * VelScale * dt, 1000)) * ExpFriction(dt), ExpScale)
        steps == SubStepCountSwept(vx1, vy1, dt, cellSize)
    IN  SweptSubSteps([x |-> b.x, y |-> b.y, vx |-> vx1, vy |-> vy1, subs |-> <<>>,
                       moves |-> <<>>, sweeps |-> <<>>, vx0 |-> vx1, vy0 |-> vy1],
                      0, steps, dt, radius, cellSize, grid, rows, cols)

\* Math.floor(pos / cellSize) on both axes
TileOf(x, y, cellSize) == [r |-> y \div cellSize, c |-> x \div cellSize]

----------------------------------------------------------------------------
(* Layout: drawGrid and LevelRenderer.renderGridToCanvas                   *)

minCell == 8

\* Faulty variant of the cell size without the minCell floor: C17 fails for it
renderCellSizeUnfloored(maxWidth, maxHeight, rows, cols) ==
    Min2(maxWidth \div cols, maxHeight \div rows)

\* renderGridToCanvas: Math.max(minCell, Math.floor(Math.min(maxWidth / cols,
\* maxHeight / rows))), in px
renderCellSize(maxWidth, maxHeight, rows, cols) ==
    Max2(minCell, Min2(maxWidth \div cols, maxHeight \div rows))

\* drawGrid's maxWidth and maxHeight for a viewport v = (w: innerWidth,
\* h: innerHeight, top: top of .container or -1 when absent, back: right edge
\* of the back button or -1 when absent), all in px
drawGridLimits(v, rows, cols) ==
    LET reserved == IF v.top >= 0 THEN v.top + 8 ELSE 24
        availHeight == Max2(120, v.h - reserved)
        maxHeight == Min2(availHeight, 1200)
        aspectWidth == Max2(200, (maxHeight * cols) \div Max2(1, rows))
        gap == 12
        safe0 == (v.w * 95) \div 100
        allowed == v.w - 2 * (v.back + gap)
        safeWidthLimit == IF v.back < 0 THEN safe0
                          ELSE IF allowed > 0 THEN Min2(safe0, allowed)
                          ELSE Min2(safe0, 200)
    IN  [maxWidth |-> Min2(Min2(aspectWidth, safeWidthLimit), 1200),
         maxHeight |-> maxHeight]

\* The renderInfo that drawGrid stores for a grid and a viewport (cellSize in units)
renderGridToCanvas(grid, v) ==
    LET rows == Len(grid)
        cols == Len(grid[1])
        lim == drawGridLimits(v, rows, IF cols = 0 THEN 1 ELSE cols)
    IN  [cols |-> cols, rows |-> rows,
         cellSize |-> renderCellSize(lim.maxWidth, lim.maxHeight, rows, cols) * PosScale]

NoRender == [cols |-> 0, rows |-> 0, cellSize |-> 0]

----------------------------------------------------------------------------
(* The page script's state.  Handlers are functions from the state s (a    *)
(* record of every variable below) to the state they leave behind.         *)

VARIABLES
    script,             \* "play": the tilt page (src/unnamed/part_003); "game": the
                        \* keyboard page (src/js/levels/render_game.js)
    phase,              \* "load": the script body has not run; "ready": it has
    fetched,            \* the levels.json promise has been settled
    needsPermission,    \* DeviceOrientationEvent.requestPermission is a function
    hasStartOverlay,    \* the page holds #startOverlay
    startOverlay,       \* "hidden" | "shown" (shown: its click listener is live)
    permOverlay,        \* "hidden" | "shown"
    permPending,        \* requestPermission() promises not yet settled
    currentLevel,       \* 0 (null) or the index of the level in Levels
    renderInfo,         \* NoRender (null) or (cols, rows, cellSize)
    startCell,          \* NoCell (null) or (r, c)
    goalCell,
    goalReached,
    animationId,        \* 0 (null) or the id of the last requestAnimationFrame
    pendingFrames,      \* ids of the frame callbacks the browser still holds
    lastFrameTime,      \* -1 (null) or ms
    animationPaused,
    ball,               \* (x, y, vx, vy, radius)
    sensorState,        \* (accel: (x, y), enabled, available)
    timerState,         \* (startTime, elapsedMs, running, started)
    timerStartBound,
    handlers,           \* pointerdown handlers registered on window
    lockPrompt,         \* "none" | "shown" | "hidden"
    idle,               \* Date.now() - getLastActive() >= IDLE_THRESHOLD_MS
    landscape,          \* what isLandscape() returned last
    times,              \* localStorage: best time of requestedLevel, -1 when none
    now,                \* performance.now() in ms
    levelsJson,         \* index in Levels of the level levels.json holds for requestedLevel
    keyState,           \* (left, right, up, down) of the keyboard variant of the page
    refresh,            \* ms between two frame callbacks of this display, 0: not fixed
    \* history, not read by any handler
    ran,                \* ms the clock advanced while timerState.running since resetTimer
    inputs,             \* input events delivered (pointer, tilt, resize, rotation)
    physSteps,          \* stepPhysics calls that integrated
    subs,               \* positions at the end of each sub-step of the last frame
    winCount,           \* showWinModal calls
    lastDt,             \* dt in ms of the last stepPhysics call made by loop, 0 when none
    lastStep,           \* (vx, vy, moves, sweeps) of the last stepPhysics call: the
                        \* damped velocity, the tentative displacement of each
                        \* sub-step and, on the keyboard page, its two axis moves
    probe,              \* (fn, in, out) of the last direct call of a function
    lastOp              \* the handler that ran last

vars == << script, phase, fetched, needsPermission, hasStartOverlay, startOverlay, permOverlay,
           permPending, currentLevel, renderInfo, startCell, goalCell, goalReached,
           animationId, pendingFrames, lastFrameTime, animationPaused, ball,
           sensorState, timerState, timerStartBound, handlers, lockPrompt, idle,
           landscape, times, now, levelsJson, keyState, refresh, ran, inputs, physSteps, subs,
           winCount, lastDt, lastStep, probe, lastOp >>

State ==
    [script |-> script, phase |-> phase, fetched |-> fetched, needsPermission |-> needsPermission,
     hasStartOverlay |-> hasStartOverlay, startOverlay |-> startOverlay,
     permOverlay |-> permOverlay, permPending |-> permPending,
     currentLevel |-> currentLevel, renderInfo |-> renderInfo,
     startCell |-> startCell, goalCell |-> goalCell, goalReached |-> goalReached,
     animationId |-> animationId, pendingFrames |-> pendingFrames,
     lastFrameTime |-> lastFrameTime, animationPaused |-> animationPaused,
     ball |-> ball, sensorState |-> sensorState, timerState |-> timerState,
     timerStartBound |-> timerStartBound, handlers |-> handlers,
     lockPrompt |-> lockPrompt, idle |-> idle, landscape |-> landscape,
     times |-> times, now |-> now, levelsJson |-> levelsJson, keyState |-> keyState,
     refresh |-> refresh,
     ran |-> ran, inputs |-> inputs, physSteps |-> physSteps,
     subs |-> subs, winCount |-> winCount, lastDt |-> lastDt, lastStep |-> lastStep,
     probe |-> probe,
     lastOp |-> lastOp]

Becomes(s) ==
    /\ script' = s.script
    /\ phase' = s.phase /\ fetched' = s.fetched
    /\ needsPermission' = s.needsPermission /\ hasStartOverlay' = s.hasStartOverlay
    /\ startOverlay' = s.startOverlay /\ permOverlay' = s.permOverlay
    /\ permPending' = s.permPending /\ currentLevel' = s.currentLevel
    /\ renderInfo' = s.renderInfo /\ startCell' = s.startCell
    /\ goalCell' = s.goalCell /\ goalReached' = s.goalReached
    /\ animationId' = s.animationId /\ pendingFrames' = s.pendingFrames
    /\ lastFrameTime' = s.lastFrameTime /\ animationPaused' = s.animationPaused
    /\ ball' = s.ball /\ sensorState' = s.sensorState /\ timerState' = s.timerState
    /\ timerStartBound' = s.timerStartBound /\ handlers' = s.handlers
    /\ lockPrompt' = s.lockPrompt /\ idle' = s.idle /\ landscape' = s.landscape
    /\ times' = s.times /\ now' = s.now /\ ran' = s.ran /\ inputs' = s.inputs
    /\ levelsJson' = s.levelsJson /\ keyState' = s.keyState /\ refresh' = s.refresh
    /\ physSteps' = s.physSteps /\ subs' = s.subs /\ winCount' = s.winCount
    /\ lastDt' = s.lastDt /\ lastStep' = s.lastStep /\ probe' = s.probe
    /\ lastOp' = s.lastOp

Starts(s) ==
    /\ script = s.script
    /\ phase = s.phase /\ fetched = s.fetched
    /\ needsPermission = s.needsPermission /\ hasStartOverlay = s.hasStartOverlay
    /\ startOverlay = s.startOverlay /\ permOverlay = s.permOverlay
    /\ permPending = s.permPending /\ currentLevel = s.currentLevel
    /\ renderInfo = s.renderInfo /\ startCell = s.startCell
    /\ goalCell = s.goalCell /\ goalReached = s.goalReached
    /\ animationId = s.animationId /\ pendingFrames = s.pendingFrames
    /\ lastFrameTime = s.lastFrameTime /\ animationPaused = s.animationPaused
    /\ ball = s.ball /\ sensorState = s.sensorState /\ timerState = s.timerState
    /\ timerStartBound = s.timerStartBound /\ handlers = s.handlers
    /\ lockPrompt = s.lockPrompt /\ idle = s.idle /\ landscape = s.landscape
    /\ times = s.times /\ now = s.now /\ ran = s.ran /\ inputs = s.inputs
    /\ levelsJson = s.levelsJson /\ keyState = s.keyState /\ refresh = s.refresh
    /\ physSteps = s.physSteps /\ subs = s.subs /\ winCount = s.winCount
    /\ lastDt = s.lastDt /\ lastStep = s.lastStep /\ probe = s.probe
    /\ lastOp = s.lastOp

\* No function has been called directly
NoCall == [fn |-> "none", in |-> <<>>, out |-> <<>>]

\* The declarations at the top of the script
Declared ==
    [script |-> "play", phase |-> "load", fetched |-> FALSE, needsPermission |-> FALSE,
     hasStartOverlay |-> FALSE, startOverlay |-> "hidden", permOverlay |-> "hidden",
     permPending |-> 0, currentLevel |-> 0, renderInfo |-> NoRender,
     startCell |-> NoCell, goalCell |-> NoCell, goalReached |-> FALSE,
     animationId |-> 0, pendingFrames |-> {}, lastFrameTime |-> -1,
     animationPaused |-> FALSE,
     ball |-> [x |-> 0, y |-> 0, vx |-> 0, vy |-> 0, radius |-> 8 * PosScale],
     sensorState |-> [accel |-> [x |-> 0, y |-> 0], enabled |-> FALSE, available |-> FALSE],
     timerState |-> [startTime |-> 0, elapsedMs |-> 0, running |-> FALSE, started |-> FALSE],
     timerStartBound |-> FALSE, handlers |-> 0, lockPrompt |-> "none", idle |-> FALSE,
     landscape |-> TRUE, times |-> -1, now |-> 0, levelsJson |-> 1,
     keyState |-> [left |-> FALSE, right |-> FALSE, up |-> FALSE, down |-> FALSE],
     refresh |-> 0, ran |-> 0, inputs |-> 0, physSteps |-> 0,
     subs |-> <<>>, winCount |-> 0, lastDt |-> 0,
     lastStep |-> [vx |-> 0, vy |-> 0, moves |-> <<>>, sweeps |-> <<>>],
     probe |-> NoCall,
     lastOp |-> "declare"]

----------------------------------------------------------------------------
(* Session timer                                                           *)

resetTimer(s) ==
    [s EXCEPT !.timerState =
        [startTime |-> 0, elapsedMs |-> 0, running |-> FALSE, started |-> FALSE],
              !.ran = 0]

\* Faulty variant of startTimer without the running guard: C7 fails for it
startTimerRestarts(s) ==
    [s EXCEPT !.timerState.startTime = s.now,
              !.timerState.running = TRUE,
              !.timerState.started = TRUE]

startTimer(s) ==
    IF s.timerState.running THEN s
    ELSE [s EXCEPT !.timerState.startTime = s.now,
                   !.timerState.running = TRUE,
                   !.timerState.started = TRUE]

\* Faulty variant of stopTimer that drops the running interval: C6 fails for it
stopTimerDropsInterval(s) ==
    IF ~s.timerState.running THEN s
    ELSE [s EXCEPT !.timerState.running = FALSE]

stopTimer(s) ==
    IF ~s.timerState.running THEN s
    ELSE [s EXCEPT !.timerState.elapsedMs = @ + (s.now - s.timerState.startTime),
                   !.timerState.running = FALSE]

getElapsedMs(s) ==
    IF ~s.timerState.running THEN s.timerState.elapsedMs
    ELSE s.timerState.elapsedMs + (s.now - s.timerState.startTime)

\* Math.round(ms) for ms >= 0 given in tenths of a millisecond
RoundTenths(tenths) == (tenths + 5) \div 10

\* Faulty variant of the store that keeps the latest time: C18 fails for it
storedAfterLatest(existing, report) ==
    IF ~report.finite \/ report.tenths < 0 THEN existing
    ELSE RoundTenths(report.tenths)

\* The value saveCompletionTime leaves in times[levelNumber]: existing is the
\* stored time in ms (-1: none, or not a finite number), report is
\* Number(elapsedMs) as (finite, tenths of a millisecond)
storedAfter(existing, report) ==
    IF ~report.finite \/ report.tenths < 0 THEN existing
    ELSE IF existing = -1 \/ report.tenths < existing * 10
         THEN RoundTenths(report.tenths)
    ELSE existing

\* saveCompletionTime(requestedLevel, elapsedMs) for an elapsed time of ms
\* whole milliseconds
saveCompletionTime(s, ms) ==
    [s EXCEPT !.times = storedAfter(s.times, [finite |-> TRUE, tenths |-> ms * 10])]

----------------------------------------------------------------------------
(* Frame loop, pause and resume                                            *)

\* requestAnimationFrame(loop): the browser hands out an id it has not handed
\* out before; the least id that is neither held by the browser nor still
\* stored in animationId stands for it.
FreshId(s) ==
    CHOOSE id \in 1..(Cardinality(s.pendingFrames) + 2) :
        /\ id \notin s.pendingFrames /\ id # s.animationId
        /\ \A j \in 1..(id - 1) : j \in s.pendingFrames \/ j = s.animationId

requestAnimationFrame(s) ==
    LET id == FreshId(s)
    IN  [s EXCEPT !.pendingFrames = @ \cup {id}, !.animationId = id]

cancelAnimationFrame(s, id) == [s EXCEPT !.pendingFrames = @ \ {id}]

\* Faulty variant of startLoop that does not cancel the callback already
\* requested: C27 fails for it
startLoopTwice(s) ==
    requestAnimationFrame([s EXCEPT !.animationPaused = FALSE, !.lastFrameTime = -1])

startLoop(s) ==
    LET s1 == IF s.animationId # 0 THEN cancelAnimationFrame(s, s.animationId) ELSE s
    IN  requestAnimationFrame([s1 EXCEPT !.animationPaused = FALSE, !.lastFrameTime = -1])

\* Faulty variant of pauseGame that keeps the velocity: C9 fails for it
pauseGameKeepsVelocity(s) ==
    LET s1 == [s EXCEPT !.animationPaused = TRUE,
                        !.timerState.elapsedMs =
                            IF s.timerState.running
                            THEN @ + (s.now - s.timerState.startTime) ELSE @,
                        !.timerState.running = FALSE]
    IN  [s1 EXCEPT !.pendingFrames = @ \ {s1.animationId}, !.animationId = 0]

pauseGame(s) ==
    LET s1 == stopTimer([s EXCEPT !.animationPaused = TRUE])
        s2 == [s1 EXCEPT !.ball.vx = 0, !.ball.vy = 0]
    IN  IF s2.animationId # 0
        THEN [cancelAnimationFrame(s2, s2.animationId) EXCEPT !.animationId = 0]
        ELSE s2

\* Faulty variant of resumeGame that re-arms the loop only: C10 fails for it
resumeGameLoopOnly(s) ==
    IF s.goalReached THEN s
    ELSE startLoop([s EXCEPT !.animationPaused = FALSE])

resumeGame(s) ==
    IF s.goalReached THEN s
    ELSE startTimer(startLoop([s EXCEPT !.animationPaused = FALSE]))

\* showWinModal(): stopTimer, then saveCompletionTime(requestedLevel, getElapsedMs())
showWinModal(s) ==
    LET s1 == stopTimer(s)
    IN  [saveCompletionTime(s1, getElapsedMs(s1)) EXCEPT !.winCount = @ + 1]

\* placeBallAtStart()
placeBallAtStart(s) ==
    IF s.renderInfo = NoRender \/ s.startCell = NoCell THEN s
    ELSE [s EXCEPT
            !.ball = [x |-> ((2 * s.startCell.c + 1) * s.renderInfo.cellSize) \div 2,
                      y |-> ((2 * s.startCell.r + 1) * s.renderInfo.cellSize) \div 2,
                      vx |-> 0, vy |-> 0,
                      radius |-> syncBallRadius(s.renderInfo.cellSize)],
            !.goalReached = FALSE]

\* Faulty variant of rescaleBall that adapts the radius only: C20 fails for it
rescaleBallRadiusOnly(s, oldCellSize) ==
    IF oldCellSize = 0 \/ s.renderInfo = NoRender THEN s
    ELSE [s EXCEPT !.ball.radius = syncBallRadius(s.renderInfo.cellSize)]

\* rescaleBall(oldCellSize) after renderInfo has been replaced
rescaleBall(s, oldCellSize) ==
    IF oldCellSize = 0 \/ s.renderInfo = NoRender THEN s
    ELSE [s EXCEPT
            !.ball.x = RDiv(@ * (s.renderInfo.cellSize \div PosScale), oldCellSize \div PosScale),
            !.ball.y = RDiv(@ * (s.renderInfo.cellSize \div PosScale), oldCellSize \div PosScale),
            !.ball.radius = syncBallRadius(s.renderInfo.cellSize)]

\* stepPhysics(dt)
\* The ball of the page after the sub-steps of a frame
Integrated(s, b) ==
    [s EXCEPT !.ball.x = b.x, !.ball.y = b.y, !.ball.vx = b.vx, !.ball.vy = b.vy,
              !.subs = b.subs, !.physSteps = @ + 1,
              !.lastStep = [vx |-> b.vx0, vy |-> b.vy0, moves |-> b.moves,
                            sweeps |-> <<>>]]

\* Faulty variant of the goal test that completes when there is no goal
\* cell: C19 fails for it
checkGoalWithoutCell(s, cell) ==
    IF ~s.goalReached
       /\ (s.goalCell = NoCell \/ (cell.r = s.goalCell.r /\ cell.c = s.goalCell.c))
    THEN showWinModal(pauseGame([s EXCEPT !.goalReached = TRUE]))
    ELSE s

\* The goal test at the end of stepPhysics
checkGoal(s, cell) ==
    IF ~s.goalReached /\ s.goalCell # NoCell
       /\ cell.r = s.goalCell.r /\ cell.c = s.goalCell.c
    THEN showWinModal(pauseGame([s EXCEPT !.goalReached = TRUE]))
    ELSE s

goalTest(s) == checkGoal(s, TileOf(s.ball.x, s.ball.y, s.renderInfo.cellSize))

stepPhysics(s, dt, grid) ==
    IF s.renderInfo = NoRender THEN s
    ELSE goalTest(Integrated(s,
            Integrate(s.ball, computeAcceleration(s.sensorState), dt, s.ball.radius,
                      s.renderInfo.cellSize, grid, s.renderInfo.rows, s.renderInfo.cols)))

\* The end of loop: if (!animationPaused) animationId = requestAnimationFrame(loop)
rearm(s) ==
    IF s.animationPaused THEN [s EXCEPT !.animationId = 0]
    ELSE requestAnimationFrame(s)

\* Faulty variant of loop without the upper bound on dt: C15 fails for it
loopUnbounded(s, timestamp, grid) ==
    IF s.animationPaused THEN [s EXCEPT !.animationId = 0]
    ELSE IF s.currentLevel = 0 \/ s.renderInfo = NoRender THEN s
    ELSE LET last == IF s.lastFrameTime = -1 THEN timestamp ELSE s.lastFrameTime
             dt == Max2(1, timestamp - last)
         IN  rearm(stepPhysics([s EXCEPT !.lastFrameTime = timestamp, !.lastDt = dt],
                               Min2(32, dt), grid))

\* loop(timestamp), entered when the browser fires the frame callback
loop(s, timestamp, grid) ==
    IF s.animationPaused THEN [s EXCEPT !.animationId = 0]
    ELSE IF s.currentLevel = 0 \/ s.renderInfo = NoRender THEN s
    ELSE LET last == IF s.lastFrameTime = -1 THEN timestamp ELSE s.lastFrameTime
             dt == Min2(32, Max2(1, timestamp - last))
         IN  rearm(stepPhysics([s EXCEPT !.lastFrameTime = timestamp, !.lastDt = dt],
                               dt, grid))

----------------------------------------------------------------------------
(* Prompts, orientation and input handlers                                 *)

markActive(s) == [s EXCEPT !.idle = FALSE]

\* showLockPrompt(): nothing unless the idle threshold has passed
showLockPrompt(s) ==
    IF ~s.idle THEN s
    ELSE markActive([pauseGame(s) EXCEPT !.lockPrompt = "shown"])

\* hideLockPrompt(), the Dismiss button of the lock prompt
hideLockPrompt(s) ==
    resumeGame([s EXCEPT !.lockPrompt = IF @ = "none" THEN "none" ELSE "hidden"])

\* handleLandscapeState() when isLandscape() returns isLandscape
handleLandscapeState(s, isLandscape) ==
    LET s1 == [s EXCEPT !.landscape = isLandscape]
    IN  IF isLandscape
        THEN IF s1.animationPaused THEN resumeGame(s1) ELSE s1
        ELSE pauseGame(s1)

\* bindTimerStartOnce(): one more pointerdown handler unless already bound
bindTimerStartOnce(s) ==
    IF s.timerStartBound THEN s
    ELSE [s EXCEPT !.handlers = @ + 1, !.timerStartBound = TRUE]

\* The n pointerdown handlers bound by bindTimerStartOnce, one after the
\* other: if (animationPaused) resumeGame(); else startTimer()
RECURSIVE RunHandlers(_, _)
RunHandlers(s, n) ==
    IF n = 0 THEN s
    ELSE RunHandlers(IF s.animationPaused THEN resumeGame(s) ELSE startTimer(s), n - 1)

\* handleOrientation(event) for event.gamma, event.beta in degrees and the
\* screen rotation angle
handleOrientation(s, eventGamma, eventBeta, angle) ==
    LET gamma == clamp(eventGamma, -TiltClamp, TiltClamp)
        beta == clamp(eventBeta, -TiltClamp, TiltClamp)
        xTilt == CASE angle = 90 -> beta
                   [] angle = -90 \/ angle = 270 -> -beta
                   [] angle = 180 -> -gamma
                   [] OTHER -> gamma
        yTilt == CASE angle = 90 -> -gamma
                   [] angle = -90 \/ angle = 270 -> gamma
                   [] angle = 180 -> -beta
                   [] OTHER -> beta
        \* clamp(tilt / 45, -1, 1) * accelScale
        ax == clamp(RDiv(xTilt * accelScale, TiltNorm), -accelScale, accelScale)
        ay == clamp(RDiv(yTilt * accelScale, TiltNorm), -accelScale, accelScale)
    IN  [s EXCEPT !.sensorState.available = TRUE,
                  !.sensorState.accel = [x |-> ax, y |-> ay]]

attachOrientationListener(s) == [s EXCEPT !.sensorState.enabled = TRUE]

\* Faulty variant of the key listeners in which a press also pushes the ball
\* at once: C26 fails for it
keyEventKick(s, key, held) ==
    [s EXCEPT !.keyState.left = IF key \in {"ArrowLeft", "a", "A"} THEN held ELSE @,
              !.keyState.right = IF key \in {"ArrowRight", "d", "D"} THEN held ELSE @,
              !.keyState.up = IF key \in {"ArrowUp", "w", "W"} THEN held ELSE @,
              !.keyState.down = IF key \in {"ArrowDown", "s", "S"} THEN held ELSE @,
              !.ball.vx = IF held /\ key \in {"ArrowRight", "d", "D"}
                          THEN @ + keyAccel ELSE @]

\* The keydown and keyup listeners of the keyboard variant: e.key sets or
\* clears the direction it names, any other key changes nothing
keyEvent(s, key, held) ==
    [s EXCEPT !.keyState.left = IF key \in {"ArrowLeft", "a", "A"} THEN held ELSE @,
              !.keyState.right = IF key \in {"ArrowRight", "d", "D"} THEN held ELSE @,
              !.keyState.up = IF key \in {"ArrowUp", "w", "W"} THEN held ELSE @,
              !.keyState.down = IF key \in {"ArrowDown", "s", "S"} THEN held ELSE @]

keydown(s, key) == keyEvent(s, key, TRUE)

keyup(s, key) == keyEvent(s, key, FALSE)

\* onOrientationPermissionGranted(), exported as LevelGame.orientationGranted
onOrientationPermissionGranted(s) ==
    startTimer(placeBallAtStart(showLockPrompt(
        [attachOrientationListener(s) EXCEPT !.startOverlay = "hidden"])))

\* onOrientationPermissionDenied(reason)
onOrientationPermissionDenied(s) == [s EXCEPT !.startOverlay = "hidden"]

\* The click listener promptToStartOnMobile puts on #startOverlay
startOverlayClick(s) ==
    bindTimerStartOnce(showLockPrompt(
        attachOrientationListener([s EXCEPT !.startOverlay = "hidden"])))

\* promptToStartOnMobile() when isLandscape() returns isLandscape
promptToStartOnMobile(s, isLandscape) ==
    LET s1 == handleLandscapeState(s, isLandscape)
    IN  IF ~s1.hasStartOverlay
        THEN bindTimerStartOnce(showLockPrompt(attachOrientationListener(s1)))
        ELSE [s1 EXCEPT !.startOverlay = "shown"]

\* The last statements of the script body
scriptBody(s, isLandscape) ==
    LET s1 == [s EXCEPT !.phase = "ready"]
    IN  IF s1.needsPermission
        THEN [s1 EXCEPT !.permOverlay = "shown"]
        ELSE promptToStartOnMobile(s1, isLandscape)

\* requestMotionPermission(evt), the click/touchend listener of #permissionButton
requestMotionPermission(s) ==
    IF ~s.needsPermission THEN [s EXCEPT !.permOverlay = "hidden"]
    ELSE [s EXCEPT !.permPending = @ + 1]

\* The then/catch of DeviceOrientationEvent.requestPermission()
permissionSettled(s, granted) ==
    LET s1 == [s EXCEPT !.permPending = @ - 1, !.permOverlay = "hidden"]
    IN  IF granted THEN onOrientationPermissionGranted(s1)
        ELSE onOrientationPermissionDenied(s1)

----------------------------------------------------------------------------
(* Level load and layout                                                   *)

\* levels.json as the page receives it: a wide maze without a wall border,
\* an empty grid, a grid whose rows differ in length, and the wide maze
\* without its goal cell
WideGrid == MakeGrid(3, 64, (<<0, 0>> :> "S") @@ (<<0, 1>> :> "#") @@ (<<1, 1>> :> "G"))

NoGoalGrid == MakeGrid(3, 64, (<<0, 0>> :> "S") @@ (<<0, 1>> :> "#"))

Levels ==
    << [level |-> 1, grid |-> WideGrid],
       [level |-> 1, grid |-> <<>>],
       [level |-> 1, grid |-> << <<"S", ".">>, <<"G">> >>],
       [level |-> 1, grid |-> NoGoalGrid] >>

\* The contents of levels.json whose playable levels hold a goal cell, and
\* the one whose level holds none
WithGoal == {1, 2, 3}
WithoutGoal == {4}

GridOf(level) == IF level = 0 THEN <<>> ELSE Levels[level].grid

\* grid.every(r => r.length === width)
uniformWidth(grid) == \A r \in 1..Len(grid) : Len(grid[r]) = Len(grid[1])

\* The viewports the page is shown in: w x h px, the top of .container and the
\* right edge of the back button (-1: no such element)
Viewports ==
    { [w |-> 640, h |-> 360, top |-> 16, back |-> -1],
      [w |-> 568, h |-> 320, top |-> 16, back |-> -1] }

\* drawGrid(grid) in viewport v
drawGrid(s, grid, v) ==
    IF Len(grid) = 0 THEN s
    ELSE LET oldCellSize == s.renderInfo.cellSize
             s1 == [s EXCEPT !.renderInfo = renderGridToCanvas(grid, v)]
         IN  IF oldCellSize # 0 THEN rescaleBall(s1, oldCellSize)
             ELSE placeBallAtStart(s1)

\* renderLevel(levelObj) for the level at index found, in viewport v
renderLevel(s, found, v) ==
    LET grid == Levels[found].grid
        specials == findSpecialCells(grid)
        s1 == bindTimerStartOnce([resetTimer([s EXCEPT !.currentLevel = found])
                                      EXCEPT !.timerStartBound = FALSE])
        s2 == [s1 EXCEPT !.startCell = specials.start, !.goalCell = specials.goal]
    IN  startLoop(placeBallAtStart(drawGrid(s2, grid, v)))

\* Faulty variant of the fetch handler without the test for rows of one
\* length: C21 fails for it
levelsLoadedUnchecked(s, found, v) ==
    LET grid == Levels[found].grid
        s1 == [s EXCEPT !.fetched = TRUE]
    IN  IF Len(grid) = 0 THEN s1
        ELSE renderLevel(s1, found, v)

\* The handler of fetch(levelsJsonPath) once the requested level is found
levelsLoaded(s, found, v) ==
    LET grid == Levels[found].grid
        s1 == [s EXCEPT !.fetched = TRUE]
    IN  IF Len(grid) = 0 THEN s1
        ELSE IF ~uniformWidth(grid) THEN s1
        ELSE renderLevel(s1, found, v)

----------------------------------------------------------------------------
(* The keyboard page (src/js/levels/render_game.js): no timer, no pause;    *)
(* the handlers it shares with the tilt page word for word (drawGrid,       *)
(* placeBallAtStart, rescaleBall, findSpecialCells, handleOrientation) are  *)
(* the ones above                                                           *)

\* The declarations at the top of the keyboard page's script
DeclaredGame == [Declared EXCEPT !.script = "game", !.phase = "ready"]

\* startLoop() of the keyboard page
startLoopGame(s) ==
    LET s1 == IF s.animationId # 0 THEN cancelAnimationFrame(s, s.animationId) ELSE s
    IN  requestAnimationFrame([s1 EXCEPT !.lastFrameTime = -1])

\* The ball of the keyboard page after the sub-steps of a frame
IntegratedSwept(s, b) ==
    [s EXCEPT !.ball.x = b.x, !.ball.y = b.y, !.ball.vx = b.vx, !.ball.vy = b.vy,
              !.subs = b.subs, !.physSteps = @ + 1,
              !.lastStep = [vx |-> b.vx0, vy |-> b.vy0, moves |-> b.moves,
                            sweeps |-> b.sweeps]]

\* The goal test at the end of the keyboard page's stepPhysics: goalReached
\* is set and a message shown, the game goes on
goalTestSwept(s) ==
    IF ~s.goalReached /\ s.goalCell # NoCell
       /\ TileOf(s.ball.x, s.ball.y, s.renderInfo.cellSize) = s.goalCell
    THEN [s EXCEPT !.goalReached = TRUE]
    ELSE s

\* stepPhysics(dt) of the keyboard page
stepPhysicsSwept(s, dt, grid) ==
    IF s.renderInfo = NoRender THEN s
    ELSE goalTestSwept(IntegratedSwept(s,
            IntegrateSwept(s.ball, computeAccelerationWithKeys(s.sensorState, s.keyState),
                           dt, s.ball.radius, s.renderInfo.cellSize, grid,
                           s.renderInfo.rows, s.renderInfo.cols)))

\* loop(timestamp) of the keyboard page
loopSwept(s, timestamp, grid) ==
    IF s.currentLevel = 0 \/ s.renderInfo = NoRender THEN s
    ELSE LET last == IF s.lastFrameTime = -1 THEN timestamp ELSE s.lastFrameTime
             dt == Min2(32, Max2(1, timestamp - last))
         IN  requestAnimationFrame(
                 stepPhysicsSwept([s EXCEPT !.lastFrameTime = timestamp, !.lastDt = dt],
                                  dt, grid))

\* renderLevel(levelObj) of the keyboard page
renderLevelGame(s, found, v) ==
    LET grid == Levels[found].grid
        specials == findSpecialCells(grid)
        s1 == [s EXCEPT !.currentLevel = found,
                        !.startCell = specials.start, !.goalCell = specials.goal]
    IN  startLoopGame(placeBallAtStart(drawGrid(s1, grid, v)))

\* setupOrientation(): the listener is attached at once, or two one-time
\* listeners (click, touchstart) are left on the document to ask for permission
setupOrientation(s) ==
    IF s.needsPermission THEN [s EXCEPT !.handlers = 2]
    ELSE attachOrientationListener(s)

\* The handler of fetch(levelsJsonPath) of the keyboard page
levelsLoadedGame(s, found, v) ==
    LET grid == Levels[found].grid
        s1 == [s EXCEPT !.fetched = TRUE]
    IN  IF Len(grid) = 0 THEN s1
        ELSE IF ~uniformWidth(grid) THEN s1
        ELSE setupOrientation(renderLevelGame(s1, found, v))

\* requestOnce(): one of the one-time listeners fires
requestOnce(s) == [s EXCEPT !.handlers = @ - 1, !.permPending = @ + 1]

\* The then/catch of requestPermission() on the keyboard page
permissionSettledGame(s, granted) ==
    LET s1 == [s EXCEPT !.permPending = @ - 1]
    IN  IF granted THEN attachOrientationListener(s1) ELSE s1

----------------------------------------------------------------------------
(* Bounds and inputs of the session                                        *)

MaxClock == 230
MaxPermRequests == 2
MaxInputs == 2

\* Gaps in ms between a frame request and its callback, and idle waits
FrameGaps == {32}
TickSteps == {100}

\* deviceorientation events: (gamma, beta) in degrees and the screen angle
TiltEvents ==
    { [gamma |-> 45, beta |-> 45, angle |-> 0],
      [gamma |-> 20, beta |-> -45, angle |-> 0] }

----------------------------------------------------------------------------
(* Actions: one per handler the browser can call                           *)

\* performance.now() advances by d ms
Advance(s, d) ==
    [s EXCEPT !.now = @ + d, !.ran = IF s.timerState.running THEN @ + d ELSE @]

Did(s, op) == Becomes([s EXCEPT !.lastOp = op])

\* An input event is delivered to handler result s
Input(s, op) == inputs < MaxInputs /\ Did([s EXCEPT !.inputs = @ + 1], op)

\* The script body runs to its end
ScriptBody ==
    /\ phase = "load"
    /\ \E l \in BOOLEAN : Did(scriptBody(State, l), "scriptBody")

\* fetch(levelsJsonPath) settles with the requested level
LevelsLoaded ==
    /\ phase = "ready" /\ ~fetched
    /\ \E v \in Viewports : Did(levelsLoaded(State, levelsJson, v), "levelsLoaded")

\* click or touchend on #permissionButton
PermissionButton ==
    /\ permOverlay = "shown" /\ permPending < MaxPermRequests
    /\ Did(requestMotionPermission(State), "requestMotionPermission")

\* a requestPermission() promise settles
PermissionSettled ==
    /\ permPending > 0
    /\ \E granted \in BOOLEAN :
          Did(permissionSettled(State, granted),
              IF granted THEN "orientationGranted" ELSE "orientationDenied")

StartOverlayClick ==
    /\ startOverlay = "shown"
    /\ Input(startOverlayClick(State), "startOverlayClick")

\* pointerdown reaches window: every registered handler runs
PointerDown ==
    /\ handlers > 0
    /\ Input(RunHandlers(State, handlers), "pointerdown")

\* orientationchange, or a change of the (orientation: landscape) media query
OrientationChange ==
    /\ phase = "ready"
    /\ \E l \in BOOLEAN : Input(handleLandscapeState(State, l), "handleLandscapeState")

\* click on the Dismiss button of the lock prompt
DismissLockPrompt ==
    /\ lockPrompt = "shown"
    /\ Input(hideLockPrompt(State), "hideLockPrompt")

\* a deviceorientation event
DeviceOrientation ==
    /\ sensorState.enabled
    /\ \E e \in TiltEvents :
          Input(handleOrientation(State, e.gamma, e.beta, e.angle), "handleOrientation")

\* the debounced resize listener
Resize ==
    /\ currentLevel # 0
    /\ \E v \in Viewports : Input(drawGrid(State, GridOf(currentLevel), v), "resize")

\* time passes with no handler running and no frame callback due
Tick ==
    \E d \in TickSteps :
        /\ pendingFrames = {}
        /\ now + d <= MaxClock
        /\ Did(Advance(State, d), "tick")

\* the browser fires a frame callback it holds, gap ms after the last handler
FrameAfter(gaps) ==
    \E id \in pendingFrames, gap \in gaps :
        /\ now + gap <= MaxClock
        /\ Did(loop([Advance(State, gap) EXCEPT !.pendingFrames = @ \ {id}],
                    now + gap, GridOf(currentLevel)), "loop")

Frame == FrameAfter(FrameGaps)

\* The page as the browser opens it, levels.json being one of the given contents
Opened(contents) ==
    \E np \in BOOLEAN, so \in BOOLEAN, i \in BOOLEAN, lj \in contents :
        Starts([Declared EXCEPT !.needsPermission = np, !.hasStartOverlay = so,
                                !.idle = i, !.levelsJson = lj])

Init == Opened(WithGoal)

Next ==
    \/ ScriptBody
    \/ LevelsLoaded
    \/ PermissionButton
    \/ PermissionSettled
    \/ StartOverlayClick
    \/ PointerDown
    \/ OrientationChange
    \/ DismissLockPrompt
    \/ DeviceOrientation
    \/ Resize
    \/ Tick
    \/ Frame

Spec == Init /\ [][Next]_vars

\* The same page when the level of levels.json holds no goal cell
SpecNoGoal == Opened(WithoutGoal) /\ [][Next]_vars

----------------------------------------------------------------------------
(* The session timer on its own: resetTimer, startTimer, stopTimer called  *)
(* in any order while the clock advances                                   *)

TimerSteps == {10, 25}

ResetTimer == Did(resetTimer(State), "resetTimer")

StartTimer == Did(startTimer(State), "startTimer")

StopTimer == Did(stopTimer(State), "stopTimer")

ClockAdvance ==
    \E d \in TimerSteps :
        /\ now + d <= MaxClock
        /\ Did(Advance(State, d), "advance")

TimerInit == Starts(Declared)

TimerNext ==
    \/ ResetTimer
    \/ StartTimer
    \/ StopTimer
    \/ ClockAdvance

SpecTimer == TimerInit /\ [][TimerNext]_vars

----------------------------------------------------------------------------
(* The frame loop under irregular frame timing: callbacks arrive early    *)
(* (16 ms) or late (100 ms, a tab that was in the background) while the    *)
(* game is paused and resumed; no sensor is attached                       *)

LoopGaps == {16, 100}

LateFrame == FrameAfter(LoopGaps)

LoopNext ==
    \/ ScriptBody
    \/ LevelsLoaded
    \/ PointerDown
    \/ OrientationChange
    \/ DismissLockPrompt
    \/ LateFrame

SpecLoop == Init /\ [][LoopNext]_vars

----------------------------------------------------------------------------
(* The grid functions on their own: isWall and findSpecialCells called on  *)
(* every rectangular grid of up to MaxCells tiles                          *)

MaxCells == 4

\* The tile symbols of levels.json and one symbol the page does not know
Symbols == {"#", ".", "S", "G", "?"}

SmallGrids ==
    UNION { [1..rows -> [1..cols -> Symbols]] :
              <<rows, cols>> \in { d \in (1..MaxCells) \X (0..MaxCells) :
                                     d[1] * d[2] <= MaxCells } }

\* A direct call of fn with arguments in that returned out
Called(fn, in, out) ==
    Did([State EXCEPT !.probe = [fn |-> fn, in |-> in, out |-> out]], fn)

\* isWall(col, row) while currentLevel.grid is the grid drawn at the start
IsWallCall ==
    \E col \in -1..MaxCells, row \in -1..MaxCells :
        Called("isWall", [grid |-> probe.in.grid, col |-> col, row |-> row],
               isWall(probe.in.grid, col, row))

FindSpecialCellsCall ==
    Called("findSpecialCells", [grid |-> probe.in.grid, col |-> 0, row |-> 0],
           findSpecialCells(probe.in.grid))

GridInit ==
    \E g \in SmallGrids :
        Starts([Declared EXCEPT
                  !.probe = [fn |-> "none", in |-> [grid |-> g, col |-> 0, row |-> 0],
                             out |-> <<>>]])

GridNext ==
    \/ IsWallCall
    \/ FindSpecialCellsCall

SpecGrid == GridInit /\ [][GridNext]_vars

----------------------------------------------------------------------------
(* Layout on its own: the cell size that drawGrid gets from the renderer   *)
(* and the radius that syncBallRadius derives from it, for grids of many   *)
(* shapes in many viewports                                                *)

LayoutShapes == {1, 3, 10, 20} \X {1, 10, 64}

LayoutViewports ==
    [w : {320, 640, 1920}, h : {240, 360, 1080}, top : {-1, 16}, back : {-1, 40}]

\* renderInfo = renderGridToCanvas(...) of drawGrid, then
\* syncBallRadius(renderInfo.cellSize) as rescaleBall and placeBallAtStart call it
SyncBallRadiusCall ==
    \E v \in LayoutViewports :
        Called("syncBallRadius", [grid |-> probe.in.grid, v |-> v],
               syncBallRadius(renderGridToCanvas(probe.in.grid, v).cellSize))

LayoutInit ==
    \E shape \in LayoutShapes :
        Starts([Declared EXCEPT
                  !.probe = [fn |-> "none",
                             in |-> [grid |-> MakeGrid(shape[1], shape[2], <<>>),
                                     v |-> <<>>],
                             out |-> <<>>]])

LayoutNext == SyncBallRadiusCall

SpecLayout == LayoutInit /\ [][LayoutNext]_vars

----------------------------------------------------------------------------
(* The score store on its own: saveCompletionTime called with any          *)
(* sequence of reported times, starting from an empty localStorage         *)

\* Number(elapsedMs): not finite, or a time in tenths of a millisecond
Reports ==
    {[finite |-> FALSE, tenths |-> 0]}
        \cup [finite : {TRUE}, tenths : {-5, 0, 4, 5, 996, 1004, 1005, 1014, 1015, 2000, 2996}]

\* A report that saveCompletionTime accepts as a time
Valid(report) == report.finite /\ report.tenths >= 0

\* The least valid time reported so far (-1: none), after one more report
LeastAfter(least, report) ==
    IF ~Valid(report) THEN least
    ELSE IF least = -1 THEN report.tenths
    ELSE Min2(least, report.tenths)

\* saveCompletionTime(requestedLevel, report); out keeps the stored time
\* before the call and the least valid time reported so far
SaveCompletionTimeCall ==
    \E report \in Reports :
        Did([State EXCEPT
                !.times = storedAfter(times, report),
                !.probe = [fn |-> "saveCompletionTime", in |-> report,
                           out |-> [before |-> times,
                                    least |-> LeastAfter(probe.out.least, report)]]],
            "saveCompletionTime")

StoreInit ==
    Starts([Declared EXCEPT
              !.probe = [fn |-> "none", in |-> <<>>,
                         out |-> [before |-> -1, least |-> -1]]])

StoreNext == SaveCompletionTimeCall

SpecStore == StoreInit /\ [][StoreNext]_vars

----------------------------------------------------------------------------
(* The input aggregator on its own: key events, tilt readings at every     *)
(* screen angle, and computeAcceleration() of the keyboard variant         *)

Keys == {"ArrowLeft", "d", "W", "ArrowDown", "Enter"}

\* event.gamma and event.beta in degrees, and the screen rotation angles
Gammas == {-60, -20, 0, 45}
Betas == {-45, 10, 90}
Angles == {0, 90, 180, -180, 270, -90}

KeyDown == \E k \in Keys : Did([keydown(State, k) EXCEPT !.probe = NoCall], "keydown")

KeyUp == \E k \in Keys : Did([keyup(State, k) EXCEPT !.probe = NoCall], "keyup")

AttachListener ==
    /\ ~sensorState.enabled
    /\ Did([attachOrientationListener(State) EXCEPT !.probe = NoCall], "attachListener")

\* a deviceorientation event at any screen angle
Orientation ==
    /\ sensorState.enabled
    /\ \E gamma \in Gammas, beta \in Betas, angle \in Angles :
          Did([handleOrientation(State, gamma, beta, angle) EXCEPT
                  !.probe = [fn |-> "handleOrientation",
                             in |-> [gamma |-> gamma, beta |-> beta, angle |-> angle],
                             out |-> handleOrientation(State, gamma, beta,
                                                       angle).sensorState.accel]],
              "handleOrientation")

ComputeAccelerationCall ==
    Called("computeAcceleration", [sensor |-> sensorState, keys |-> keyState],
           computeAccelerationWithKeys(sensorState, keyState))

InputInit == Starts(Declared)

InputNext ==
    \/ KeyDown
    \/ KeyUp
    \/ AttachListener
    \/ Orientation
    \/ ComputeAccelerationCall

SpecInput == InputInit /\ [][InputNext]_vars

----------------------------------------------------------------------------
(* The integrator of both pages over a long run: a level has been rendered, *)
(* a tilt reading has arrived and (on the keyboard page) keys are held; the *)
(* display then fires frame callbacks at a fixed interval                   *)

MaxRun == 1200

\* ms between frame callbacks: 120 Hz, 60 Hz and 30 Hz displays
Refreshes == {8, 16, 32}

\* Tilt readings (gamma, beta) at screen angle 0, and the keys pressed before
\* the first frame
RunTilts == { <<0, 0>>, <<50, 0>>, <<45, 45>>, <<-20, 50>> }
RunKeys == { <<>>, <<"ArrowRight">>, <<"ArrowRight", "ArrowDown">> }

\* keydown for each key of the sequence
RECURSIVE KeysPressed(_, _)
KeysPressed(s, keys) ==
    IF keys = <<>> THEN s ELSE KeysPressed(keydown(s, Head(keys)), Tail(keys))

\* The tilt page after its script body, the level load in viewport v and a
\* tilt reading
PlayReady(lj, v, tilt) ==
    handleOrientation(
        levelsLoaded(scriptBody([Declared EXCEPT !.levelsJson = lj], TRUE), lj, v),
        tilt[1], tilt[2], 0)

\* The keyboard page after the level load, a tilt reading and the key presses
GameReady(lj, v, tilt, keys) ==
    KeysPressed(
        handleOrientation(levelsLoadedGame([DeclaredGame EXCEPT !.levelsJson = lj], lj, v),
                          tilt[1], tilt[2], 0),
        keys)

RunInit ==
    \E lj \in {1, 4}, v \in Viewports, tilt \in RunTilts, r \in Refreshes :
        \/ Starts([PlayReady(lj, v, tilt) EXCEPT !.refresh = r])
        \/ \E keys \in RunKeys :
              Starts([GameReady(lj, v, tilt, keys) EXCEPT !.refresh = r])

\* a frame callback of the tilt page
PlayFrame ==
    /\ script = "play" /\ now + refresh <= MaxRun
    /\ \E id \in pendingFrames :
          Did(loop([Advance(State, refresh) EXCEPT !.pendingFrames = @ \ {id}],
                   now + refresh, GridOf(currentLevel)), "loop")

\* a frame callback of the keyboard page
GameFrame ==
    /\ script = "game" /\ now + refresh <= MaxRun
    /\ \E id \in pendingFrames :
          Did(loopSwept([Advance(State, refresh) EXCEPT !.pendingFrames = @ \ {id}],
                        now + refresh, GridOf(currentLevel)), "loop")

RunNext ==
    \/ PlayFrame
    \/ GameFrame

SpecRun == RunInit /\ [][RunNext]_vars

----------------------------------------------------------------------------
(* A session of the keyboard page: the level load, the permission request   *)
(* of setupOrientation, key and tilt events, resizes and frame callbacks    *)

MaxGameInputs == 3

\* Keys of keydown/keyup events and deviceorientation readings at angle 0
GameKeys == {"d", "ArrowDown"}
GameTilts ==
    { [gamma |-> 45, beta |-> 0, angle |-> 0],
      [gamma |-> 0, beta |-> 45, angle |-> 0] }

\* An input event of the keyboard page is delivered to handler result s
GameInput(s, op) == inputs < MaxGameInputs /\ Did([s EXCEPT !.inputs = @ + 1], op)

\* The keyboard page as the browser opens it
GameInit ==
    \E np \in BOOLEAN, lj \in WithGoal :
        Starts([DeclaredGame EXCEPT !.needsPermission = np, !.levelsJson = lj])

\* fetch(levelsJsonPath) settles with the requested level
GameLevelsLoaded ==
    /\ script = "game" /\ ~fetched
    /\ \E v \in Viewports : Did(levelsLoadedGame(State, levelsJson, v), "levelsLoaded")

\* the first click or touchstart on the document
GameRequestOnce ==
    /\ script = "game" /\ handlers > 0
    /\ GameInput(requestOnce(State), "requestOnce")

\* requestPermission() settles
GamePermissionSettled ==
    /\ script = "game" /\ permPending > 0
    /\ \E granted \in BOOLEAN :
          Did(permissionSettledGame(State, granted), "permissionSettled")

GameKeyDown ==
    /\ script = "game"
    /\ \E k \in GameKeys : GameInput(keydown(State, k), "keydown")

GameKeyUp ==
    /\ script = "game"
    /\ \E k \in GameKeys : GameInput(keyup(State, k), "keyup")

\* a deviceorientation event
GameOrientation ==
    /\ script = "game" /\ sensorState.enabled
    /\ \E e \in GameTilts :
          GameInput(handleOrientation(State, e.gamma, e.beta, e.angle), "handleOrientation")

\* the debounced resize listener
GameResize ==
    /\ script = "game" /\ currentLevel # 0
    /\ \E v \in Viewports : GameInput(drawGrid(State, GridOf(currentLevel), v), "resize")

\* the browser fires the frame callback it holds
GamePageFrame ==
    /\ script = "game"
    /\ \E id \in pendingFrames, gap \in FrameGaps :
          /\ now + gap <= MaxClock
          /\ Did(loopSwept([Advance(State, gap) EXCEPT !.pendingFrames = @ \ {id}],
                           now + gap, GridOf(currentLevel)), "loop")

GameNext ==
    \/ GameLevelsLoaded
    \/ GameRequestOnce
    \/ GamePermissionSettled
    \/ GameKeyDown
    \/ GameKeyUp
    \/ GameOrientation
    \/ GameResize
    \/ GamePageFrame

SpecGame == GameInit /\ [][GameNext]_vars

----------------------------------------------------------------------------
(* The collision resolver on its own: one sub-step of stepPhysics from any  *)
(* position that is clear of the walls, with any velocity whose tentative   *)
(* displacement is within the sub-step bound, in mazes with a pillar, a     *)
(* corridor, an inner corner and a diagonal of wall tiles                   *)

\* 3 x 64 mazes whose wall tiles lie in the first three columns
ResolveGrids ==
    { MakeGrid(3, 64, (<<1, 1>> :> "#")),
      MakeGrid(3, 64, (<<0, 0>> :> "#") @@ (<<1, 0>> :> "#") @@ (<<2, 0>> :> "#")
                         @@ (<<0, 2>> :> "#") @@ (<<1, 2>> :> "#") @@ (<<2, 2>> :> "#")),
      MakeGrid(3, 64, (<<0, 1>> :> "#") @@ (<<1, 0>> :> "#")),
      MakeGrid(3, 64, (<<0, 0>> :> "#") @@ (<<1, 1>> :> "#") @@ (<<2, 2>> :> "#")) }

\* ball.pos before the sub-step on a lattice of 1/Lattice px over the first
\* Span columns, ball.vel per axis in 1/VelScale px/s, and stepDt in ms
Lattice == 1
Span == 4
StepVels == {-2100, -1500, -500, 0, 500, 1500, 2100}
StepDt == 16

\* (x, y) lies in the field, a radius away from its edges and from every wall
Clear(x, y, radius, cellSize, grid) ==
    /\ radius <= x /\ x <= Len(grid[1]) * cellSize - radius
    /\ radius <= y /\ y <= Len(grid) * cellSize - radius
    /\ \A r \in 0..(Len(grid) - 1), c \in 0..(Span - 1) :
          grid[r + 1][c + 1] = "#" =>
              LET dx == x - clamp(x, c * cellSize, (c + 1) * cellSize)
                  dy == y - clamp(y, r * cellSize, (r + 1) * cellSize)
              IN  dx * dx + dy * dy >= radius * radius

\* The displacement (dx, dy) is no longer than cellSize * 0.45, the most that
\* stepPhysics lets a sub-step travel
WithinSubStep(dx, dy, cellSize) ==
    dx * dx + dy * dy <= ((cellSize * 45) \div 100) * ((cellSize * 45) \div 100)

\* The level has been rendered and the ball is somewhere clear of the walls;
\* probe.in holds the sub-step that is about to be made from (x, y) with
\* ball.vel = (vx, vy): the arguments of the resolver's call
ResolveIn(grid, v, info, radius) ==
    \E i \in 0..(Span * (info.cellSize \div PosScale) * Lattice),
       j \in 0..(info.rows * (info.cellSize \div PosScale) * Lattice),
       vx \in StepVels, vy \in StepVels :
        /\ Clear((i * PosScale) \div Lattice, (j * PosScale) \div Lattice,
                 radius, info.cellSize, grid)
        /\ WithinSubStep(RDiv(vx * StepDt * PosScale, VelScale * 1000),
                         RDiv(vy * StepDt * PosScale, VelScale * 1000), info.cellSize)
        /\ Starts([Declared EXCEPT
                     !.probe = [fn |-> "none",
                                in |-> [grid |-> grid, v |-> v, rows |-> info.rows,
                                        cols |-> info.cols, cellSize |-> info.cellSize,
                                        radius |-> radius,
                                        x |-> (i * PosScale) \div Lattice,
                                        y |-> (j * PosScale) \div Lattice,
                                        vx |-> vx, vy |-> vy,
                                        nextX |-> (i * PosScale) \div Lattice
                                            + RDiv(vx * StepDt * PosScale, VelScale * 1000),
                                        nextY |-> (j * PosScale) \div Lattice
                                            + RDiv(vy * StepDt * PosScale, VelScale * 1000)],
                                out |-> <<>>]])

ResolveInit ==
    \E g \in ResolveGrids, v \in Viewports :
        ResolveIn(g, v, renderGridToCanvas(g, v),
                  syncBallRadius(renderGridToCanvas(g, v).cellSize))

\* const resolved = resolveCircleCollisions(nextX, nextY, radius, cellSize)
ResolveCall ==
    /\ probe.fn = "none"
    /\ Called("resolveCircleCollisions", probe.in,
              resolveCircleCollisions(probe.in.nextX, probe.in.nextY,
                                      probe.in.vx, probe.in.vy, probe.in.radius,
                                      probe.in.cellSize, probe.in.grid,
                                      probe.in.rows, probe.in.cols))

ResolveNext == ResolveCall

SpecResolve == ResolveInit /\ [][ResolveNext]_vars

----------------------------------------------------------------------------
(* Properties                                                              *)

\* The grid of the level being played
PlayGrid == GridOf(currentLevel)

\* Squared distance from (x, y) to the closest point of the box of tile (col, row)
TileDistSq(x, y, col, row, cellSize) ==
    (x - clamp(x, col * cellSize, (col + 1) * cellSize))
        * (x - clamp(x, col * cellSize, (col + 1) * cellSize))
    + (y - clamp(y, row * cellSize, (row + 1) * cellSize))
        * (y - clamp(y, row * cellSize, (row + 1) * cellSize))

\* The wall tiles of the grid that a ball of the given radius at (x, y) can touch
WallsNear(x, y, radius, cellSize, grid) ==
    { t \in (((y - radius) \div cellSize)..((y + radius) \div cellSize))
             \X (((x - radius) \div cellSize)..((x + radius) \div cellSize)) :
        /\ t[1] >= 0 /\ t[1] < Len(grid)
        /\ t[2] >= 0 /\ t[2] < Len(grid[1])
        /\ grid[t[1] + 1][t[2] + 1] = "#" }

\* The overlap the resolver may leave: twice its separation bias
Epsilon == 2 * Bias

\* (x, y) keeps a ball of the given radius at least radius - Epsilon away from
\* every wall tile
ClearOfWalls(x, y, radius, cellSize, grid) ==
    \A t \in WallsNear(x, y, radius, cellSize, grid) :
        TileDistSq(x, y, t[2], t[1], cellSize) >= (radius - Epsilon) * (radius - Epsilon)

\* C1: right after a frame, every position that a sub-step of stepPhysics
\* stored in ball.pos (each one returned by resolveCircleCollisions) is at
\* least radius - epsilon away from the closest point of every wall tile.
C1_ResolvedClearOfWalls ==
    (lastOp = "loop" /\ renderInfo # NoRender) =>
        \A i \in 1..Len(subs) :
            ClearOfWalls(subs[i][1], subs[i][2], ball.radius, renderInfo.cellSize, PlayGrid)

\* C2: once a level has been rendered, ball.pos.x lies in
\* [radius, cols * cellSize - radius] and ball.pos.y in
\* [radius, rows * cellSize - radius], for the current radius and cellSize.
C2_BallInsideField ==
    (currentLevel # 0 /\ renderInfo # NoRender) =>
        /\ ball.radius <= ball.x /\ ball.x <= renderInfo.cols * renderInfo.cellSize - ball.radius
        /\ ball.radius <= ball.y /\ ball.y <= renderInfo.rows * renderInfo.cellSize - ball.radius

\* C3: goalReached never changes from true back to false, whatever handler
\* runs, and showWinModal (with saveCompletionTime) runs at most once.
C3_GoalMonotonic ==
    /\ [][goalReached => goalReached']_vars
    /\ [](winCount <= 1)

\* C4: once the goal has been reached in the session (showWinModal has run),
\* no later step executes stepPhysics.
C4_NoPhysicsAfterGoal == [][winCount > 0 => physSteps' = physSteps]_vars

\* C5: whenever stepPhysics has run and some sub-step of it ended with the
\* ball's centre in the goal tile, goalReached is true after that frame.
C5_GoalTileCompletes ==
    [][(physSteps' # physSteps /\ goalCell' # NoCell
        /\ \E i \in 1..Len(subs') :
              TileOf(subs'[i][1], subs'[i][2], renderInfo'.cellSize) = goalCell')
       => goalReached']_vars

\* C6: getElapsedMs() equals the time the clock advanced while the timer was
\* running since the last reset (the sum of the running intervals), and right
\* after resetTimer() it is 0 with running and started both false.
C6_TimerRoundTrip ==
    /\ getElapsedMs(State) = ran
    /\ lastOp = "resetTimer" =>
          /\ getElapsedMs(State) = 0
          /\ ~timerState.running /\ ~timerState.started

\* C6 witness: a second start/stop pair has just been closed, after the clock
\* advanced inside both intervals and between them.
C6_Witness ==
    /\ lastOp = "stopTimer" /\ ~timerState.running
    /\ timerState.startTime > 0
    /\ timerState.elapsedMs > now - timerState.startTime
    /\ now - timerState.startTime > 0
    /\ ran < now

\* C7: startTimer() on a running timer leaves startTime, elapsedMs and running
\* as they were, and stopTimer() on a stopped timer leaves elapsedMs as it was.
C7_TimerNoOps ==
    [][/\ (lastOp' = "startTimer" /\ timerState.running) =>
            /\ timerState'.startTime = timerState.startTime
            /\ timerState'.elapsedMs = timerState.elapsedMs
            /\ timerState'.running
       /\ (lastOp' = "stopTimer" /\ ~timerState.running) =>
            timerState'.elapsedMs = timerState.elapsedMs]_vars

\* C7 witness: startTimer() has just been called on a timer that had been
\* running for a while, after an earlier interval was folded in.
C7_Witness ==
    /\ lastOp = "startTimer" /\ timerState.running
    /\ timerState.startTime < now
    /\ timerState.elapsedMs > 0

\* C8: whenever the game is paused the session timer is not running.
C8_PausedTimerStopped == animationPaused => ~timerState.running

\* C9: while the game is paused no frame callback is scheduled (animationId is
\* null and the browser holds none), the ball's velocity is (0, 0), and no step
\* taken from a paused state executes stepPhysics.
C9_PausedLoopStopped ==
    /\ [](animationPaused =>
            /\ animationId = 0 /\ pendingFrames = {}
            /\ ball.vx = 0 /\ ball.vy = 0)
    /\ [][animationPaused => physSteps' = physSteps]_vars

\* C9 witness: pauseGame() ran after the ball had rolled away from the start
\* cell, and a sensor reading with a non-zero tilt has arrived since.
C9_Witness ==
    /\ animationPaused /\ lastOp = "handleOrientation"
    /\ physSteps > 1
    /\ sensorState.accel.x # 0
    /\ ball.x # ((2 * startCell.c + 1) * renderInfo.cellSize) \div 2

\* A step in which resumeGame() was the last call of the handler that ran
Resumed ==
    \/ lastOp' = "hideLockPrompt"
    \/ lastOp' = "pointerdown" /\ animationPaused
    \/ lastOp' = "handleLandscapeState" /\ landscape' /\ animationPaused

\* C10: right after resumeGame(), if the goal has not been reached then
\* animationPaused is false, exactly one frame callback is scheduled (the one
\* animationId names) and the timer is running; if the goal has been reached
\* then the loop, the timer and animationPaused are as they were.
C10_ResumeRearms ==
    [][Resumed =>
        IF goalReached
        THEN /\ animationPaused' = animationPaused
             /\ animationId' = animationId /\ pendingFrames' = pendingFrames
             /\ lastFrameTime' = lastFrameTime
             /\ timerState' = timerState
        ELSE /\ ~animationPaused'
             /\ pendingFrames' = {animationId'} /\ animationId' # 0
             /\ timerState'.running]_vars

\* C10 witness: the lock prompt was dismissed during a session that had been
\* paused and resumed by a pointer event before; the loop is armed once and
\* the timer runs.
C10_Witness ==
    /\ lastOp = "hideLockPrompt" /\ ~goalReached /\ currentLevel # 0
    /\ ~animationPaused /\ Cardinality(pendingFrames) = 1
    /\ timerState.running /\ inputs = 2

\* (col, row) names a cell of the grid
InGrid(grid, col, row) ==
    /\ 0 <= row /\ row < Len(grid)
    /\ 0 <= col /\ col < Len(grid[1])

\* C11: isWall(col, row) is true for every coordinate outside the grid and
\* for every cell of the grid that holds '#', and false for every cell of the
\* grid that holds '.', 'S', 'G' or a symbol the page does not know.
C11_IsWallClosedWorld ==
    probe.fn = "isWall" =>
        probe.out = IF InGrid(probe.in.grid, probe.in.col, probe.in.row)
                    THEN probe.in.grid[probe.in.row + 1][probe.in.col + 1] = "#"
                    ELSE TRUE

\* C11 witness: isWall was asked about a cell of the grid that holds the
\* unknown symbol, next to a wall cell, and returned false.
C11_Witness ==
    /\ probe.fn = "isWall" /\ probe.out = FALSE
    /\ InGrid(probe.in.grid, probe.in.col, probe.in.row)
    /\ probe.in.grid[probe.in.row + 1][probe.in.col + 1] = "?"
    /\ probe.in.col > 0
    /\ probe.in.grid[probe.in.row + 1][probe.in.col] = "#"

\* The cells of the grid that hold sym
CellsOf(grid, sym) ==
    { cell \in [r : 0..(Len(grid) - 1), c : 0..(Len(grid[1]) - 1)] :
        grid[cell.r + 1][cell.c + 1] = sym }

\* The first cell holding sym when the rows are read from the top and each
\* row from the left; NoCell when no cell holds it
FirstCell(grid, sym) ==
    IF CellsOf(grid, sym) = {} THEN NoCell
    ELSE CHOOSE cell \in CellsOf(grid, sym) :
            \A other \in CellsOf(grid, sym) :
                cell.r < other.r \/ (cell.r = other.r /\ cell.c <= other.c)

\* C12: findSpecialCells returns as start (as goal) the first 'S' ('G') of the
\* grid in reading order, rows from the top and each row from the left, also
\* when several cells hold the symbol, and null when no cell holds it.
C12_FirstOccurrence ==
    probe.fn = "findSpecialCells" =>
        /\ probe.out.start = FirstCell(probe.in.grid, "S")
        /\ probe.out.goal = FirstCell(probe.in.grid, "G")

\* 1 when the key is held, 0 when not
Held(key) == IF key THEN 1 ELSE 0

\* C13: computeAcceleration() returns the last tilt acceleration, counted
\* only when the sensor is enabled and has delivered a reading, plus keyAccel
\* times (right - left) on x and (down - up) on y for the held direction keys.
C13_AccelerationSum ==
    probe.fn = "computeAcceleration" =>
        LET sensor == probe.in.sensor
            keys == probe.in.keys
            counted == sensor.enabled /\ sensor.available
        IN  /\ probe.out.ax = (IF counted THEN sensor.accel.x ELSE 0)
                               + keyAccel * (Held(keys.right) - Held(keys.left))
            /\ probe.out.ay = (IF counted THEN sensor.accel.y ELSE 0)
                               + keyAccel * (Held(keys.down) - Held(keys.up))

\* C13 witness: computeAcceleration() was called with left and right both
\* held, down held, and a tilt reading stored: x is the tilt alone, y the tilt
\* plus keyAccel.
C13_Witness ==
    /\ probe.fn = "computeAcceleration"
    /\ probe.in.keys.left /\ probe.in.keys.right
    /\ probe.in.keys.down /\ ~probe.in.keys.up
    /\ probe.in.sensor.enabled /\ probe.in.sensor.available
    /\ probe.in.sensor.accel.x # 0
    /\ probe.out.ax = probe.in.sensor.accel.x
    /\ probe.out.ay = probe.in.sensor.accel.y + keyAccel

\* The rotation table: (xTilt, yTilt) for the clamped tilt and a screen angle
TableTilt(gamma, beta, angle) ==
    IF angle = 0 THEN [x |-> gamma, y |-> beta]
    ELSE IF angle = 90 THEN [x |-> beta, y |-> -gamma]
    ELSE IF angle = 180 \/ angle = -180 THEN [x |-> -gamma, y |-> -beta]
    ELSE [x |-> -beta, y |-> gamma]

\* The acceleration for a tilt of t degrees: clamp(t / 45, -1, 1) * accelScale
AccelOf(t) == clamp(RDiv(t * accelScale, TiltNorm), -accelScale, accelScale)

\* C14: for every reading (gamma, beta) and every screen angle among 0, 90,
\* 180, -180, 270 and -90, handleOrientation stores the acceleration of the
\* tilt that the rotation table gives for the clamped reading: 0 -> (gamma,
\* beta); 90 -> (beta, -gamma); 180, -180 -> (-gamma, -beta); 270, -90 ->
\* (-beta, gamma).
C14_RotationTable ==
    probe.fn = "handleOrientation" =>
        LET tilt == TableTilt(clamp(probe.in.gamma, -TiltClamp, TiltClamp),
                              clamp(probe.in.beta, -TiltClamp, TiltClamp),
                              probe.in.angle)
        IN  probe.out = [x |-> AccelOf(tilt.x), y |-> AccelOf(tilt.y)]

\* A step whose handler ended in startLoop(): a level was rendered, or
\* resumeGame() ran before the goal was reached
LoopStarted ==
    \/ lastOp' = "levelsLoaded" /\ currentLevel' # 0
    \/ Resumed /\ ~goalReached

\* C15: every stepPhysics call of the frame loop gets a dt of 1 ms to 32 ms
\* whatever the gap between the frame timestamps, and the first frame after
\* startLoop gets 1 ms: startLoop leaves lastFrameTime null with a frame
\* requested, only a frame stores a timestamp in lastFrameTime, and a frame
\* that finds it null integrates 1 ms.
C15_FrameDtClamped ==
    [][/\ physSteps' # physSteps => (1 <= lastDt' /\ lastDt' <= 32)
       /\ (physSteps' # physSteps /\ lastFrameTime = -1) => lastDt' = 1
       /\ LoopStarted => (lastFrameTime' = -1 /\ pendingFrames' # {})
       /\ lastOp' # "loop" => (lastFrameTime' = lastFrameTime \/ lastFrameTime' = -1)]_vars

\* C15 witness: a frame that came 100 ms after the game was resumed from a
\* pause has integrated 1 ms, after an earlier frame had stored a timestamp.
C15_Witness ==
    /\ lastOp = "loop" /\ lastDt = 1 /\ physSteps >= 3
    /\ inputs = 2 /\ lastFrameTime >= 200

\* The resolver called again on the position and velocity it has just left
\* in ball.pos and ball.vel
ResolvedAgain ==
    resolveCircleCollisions(ball.x, ball.y, ball.vx, ball.vy, ball.radius,
                            renderInfo.cellSize, PlayGrid,
                            renderInfo.rows, renderInfo.cols)

\* C16: right after a frame that ran stepPhysics, calling
\* resolveCircleCollisions again with the position its last call returned
\* (same radius, cellSize and grid) returns that position and leaves ball.vel
\* as it is.
C16_ResolverIdempotent ==
    (lastOp = "loop" /\ ~animationPaused /\ currentLevel # 0 /\ renderInfo # NoRender) =>
        /\ ResolvedAgain.x = ball.x /\ ResolvedAgain.y = ball.y
        /\ ResolvedAgain.vx = ball.vx /\ ResolvedAgain.vy = ball.vy

\* C17: once syncBallRadius has run for the cell size that renderGridToCanvas
\* produced (minCell 8), the radius is at least 3 px and at most 0.45 of the
\* cell size.
C17_RadiusBounds ==
    probe.fn = "syncBallRadius" =>
        /\ 3 * PosScale <= probe.out
        /\ 100 * probe.out <= 45 * renderGridToCanvas(probe.in.grid, probe.in.v).cellSize

\* C17 witness: a 64-column grid in a 320 px wide viewport, where the cell
\* size is held at minCell and the radius at its floor of 3 px.
C17_Witness ==
    /\ probe.fn = "syncBallRadius"
    /\ probe.in.v.w = 320 /\ Len(probe.in.grid[1]) = 64
    /\ renderGridToCanvas(probe.in.grid, probe.in.v).cellSize = minCell * PosScale
    /\ probe.out = 3 * PosScale

C19_NoGoalNeverCompletes ==
    /\ goalCell = NoCell /\ ~goalReached
    /\ winCount = 0 /\ times = -1
    /\ (lastOp = "loop" /\ ~animationPaused /\ currentLevel # 0) =>
          (Len(subs) >= 1 /\ <<ball.x, ball.y>> = subs[Len(subs)])

\* C19 witness: after six frames of full tilt the ball is in tile (row 1,
\* col 1), where the same maze with a goal cell has its goal, and the game
\* goes on.
C19_Witness ==
    /\ currentLevel \in WithoutGoal /\ lastOp = "loop" /\ physSteps >= 6
    /\ TileOf(ball.x, ball.y, renderInfo.cellSize) = [r |-> 1, c |-> 1]
    /\ ~goalReached /\ ~animationPaused /\ pendingFrames # {}

\* pos / cellSize is the same for (pos, cellSize) and (pos2, cellSize2), up to
\* the half unit by which a position is rounded
SameRelative(pos, cellSize, pos2, cellSize2) ==
    2 * Abs(pos2 * (cellSize \div PosScale) - pos * (cellSize2 \div PosScale))
        <= cellSize \div PosScale

\* C20: when a level has been rendered the ball is at the centre of the
\* start cell, ((c + 0.5) * cellSize, (r + 0.5) * cellSize), with zero
\* velocity; when drawGrid runs again after a resize, pos / cellSize is the
\* same on both axes before and after, and so is the tile the ball is in.
C20_PlacedAndRescaled ==
    [][/\ (lastOp' = "levelsLoaded" /\ currentLevel' # 0 /\ startCell' # NoCell) =>
            /\ 2 * ball'.x = (2 * startCell'.c + 1) * renderInfo'.cellSize
            /\ 2 * ball'.y = (2 * startCell'.r + 1) * renderInfo'.cellSize
            /\ ball'.vx = 0 /\ ball'.vy = 0
       /\ (lastOp' = "resize" /\ renderInfo # NoRender) =>
            /\ SameRelative(ball.x, renderInfo.cellSize, ball'.x, renderInfo'.cellSize)
            /\ SameRelative(ball.y, renderInfo.cellSize, ball'.y, renderInfo'.cellSize)
            /\ TileOf(ball'.x, ball'.y, renderInfo'.cellSize)
                 = TileOf(ball.x, ball.y, renderInfo.cellSize)]_vars

\* C20 witness: the window was resized to another cell size after the ball
\* had rolled out of the start tile: ball.pos is no longer the position the
\* last frame stored, and the radius is the one of the new cell size.
C20_Witness ==
    /\ lastOp = "resize" /\ physSteps >= 6
    /\ subs # <<>> /\ subs[Len(subs)] # <<ball.x, ball.y>>
    /\ TileOf(ball.x, ball.y, renderInfo.cellSize) # startCell
    /\ ball.radius = syncBallRadius(renderInfo.cellSize)

\* The contents of levels.json that the fetch handler rejects: the empty grid
\* and the grid whose rows differ in length
Rejected == {2, 3}

\* C21 as stated: a level whose grid is empty or whose rows are not all the
\* same length is rejected at load: currentLevel stays null, no frame
\* callback of loop is ever requested and no stepPhysics call runs.
C21_RejectedNothingStarts ==
    levelsJson \in Rejected =>
        /\ currentLevel = 0
        /\ pendingFrames = {} /\ animationId = 0
        /\ physSteps = 0

\* C21 amended: a level whose grid is empty or whose rows are not all the
\* same length is rejected at load: currentLevel and renderInfo stay null and
\* no stepPhysics call ever runs; a frame callback that startLoop requested
\* on behalf of resumeGame returns without stepping and without requesting
\* another frame.
C21_RejectedNeverSimulates ==
    /\ [](levelsJson \in Rejected =>
            /\ currentLevel = 0 /\ renderInfo = NoRender
            /\ startCell = NoCell /\ goalCell = NoCell
            /\ physSteps = 0 /\ ~goalReached)
    /\ [][(levelsJson \in Rejected /\ lastOp' = "loop") =>
            /\ pendingFrames' \subseteq pendingFrames /\ pendingFrames' # pendingFrames
            /\ ball' = ball /\ lastFrameTime' = lastFrameTime]_vars

\* C21 witness: the grid with rows of different length was fetched and
\* rejected, the game was resumed from a pause, and the frame callback that
\* followed has returned leaving nothing scheduled.
C21_Witness ==
    /\ levelsJson = 3 /\ fetched /\ lastOp = "loop"
    /\ currentLevel = 0 /\ pendingFrames = {} /\ ~animationPaused

\* 0.45 of the cell size, the most a sub-step may travel, and the slack of
\* the fixed-point arithmetic on a displacement (0.004 px)
MaxTravel == (renderInfo.cellSize * 45) \div 100
TravelSlack == (4 * PosScale) \div 1000

\* The sub-step count is the least n >= 1 with speed * dt <= n * 0.45 * cellSize
\* (speed in 1/VelScale px/s, dt in ms, lengths in 1/PosScale px)
IsSubStepCount(n, speed, dt) ==
    /\ n >= 1
    /\ speed * dt * PosScale <= n * MaxTravel * VelScale * 1000
    /\ n > 1 => speed * dt * PosScale > (n - 1) * MaxTravel * VelScale * 1000

\* The sub-step count of the last frame fits the speed of the damped velocity
CountFits(speed) == IsSubStepCount(Len(lastStep.moves), speed, lastDt)

\* The tentative displacement d of a sub-step is at most 0.45 * cellSize long
Bounded(d) ==
    d[1] * d[1] + d[2] * d[2] <= (MaxTravel + TravelSlack) * (MaxTravel + TravelSlack)

\* Each of the two axis moves of a sub-step is at most 0.45 * cellSize long
BoundedPerAxis(d) ==
    Abs(d[1]) <= MaxTravel + TravelSlack /\ Abs(d[2]) <= MaxTravel + TravelSlack

\* A frame has just run stepPhysics
Stepped == lastOp = "loop" /\ lastDt > 0 /\ lastStep.moves # <<>>

\* C22 as stated: in every frame stepPhysics makes
\* N = max(1, ceil(speed * dt / (0.45 * cellSize))) sub-steps, and the
\* tentative displacement of the ball in each sub-step is at most
\* 0.45 * cellSize long, on both pages.
C22_SubStepTravelBounded ==
    Stepped =>
        /\ CountFits(IF script = "play"
                     THEN RSqrt(lastStep.vx * lastStep.vx + lastStep.vy * lastStep.vy)
                     ELSE Max2(Abs(lastStep.vx), Abs(lastStep.vy)))
        /\ \A i \in 1..Len(lastStep.moves) : Bounded(lastStep.moves[i])

\* C22 amended: the same count N; on the tilt page, where speed is the
\* length of the velocity, the tentative displacement of each sub-step is at
\* most 0.45 * cellSize long; on the keyboard page, where speed is
\* max(|vx|, |vy|), each of the two axis moves of a sub-step is at most
\* 0.45 * cellSize long.
C22_SubStepTravelPerMove ==
    Stepped =>
        /\ CountFits(IF script = "play"
                     THEN RSqrt(lastStep.vx * lastStep.vx + lastStep.vy * lastStep.vy)
                     ELSE Max2(Abs(lastStep.vx), Abs(lastStep.vy)))
        /\ \A i \in 1..Len(lastStep.moves) :
              IF script = "play" THEN Bounded(lastStep.moves[i])
              ELSE BoundedPerAxis(lastStep.moves[i])

\* C22 witness: a frame of 32 ms on the tilt page was split into at least
\* four sub-steps, the ball moving along both axes.
C22_Witness ==
    /\ Stepped /\ script = "play" /\ lastDt = 32
    /\ Len(lastStep.moves) >= 4
    /\ lastStep.moves[1][1] # 0 /\ lastStep.moves[1][2] # 0

\* The collisions of the resolver call just made
Hits == probe.out.hits

\* v . n and v . t for the tangent t = (-ny, nx), in 1/NormScale of a velocity unit
Dot(vx, vy, nx, ny) == vx * nx + vy * ny
Cross(vx, vy, nx, ny) == vy * nx - vx * ny

\* The rounding of the fixed-point response: 0.2 px/s on a component of the
\* velocity along a direction, one velocity unit on the speed
DotSlack == 2 * NormScale

\* The collision h took away the inward normal component of ball.vel and
\* nothing else
Slides(h) ==
    /\ Dot(h.vx, h.vy, h.nx, h.ny) >= 0 => (h.vx1 = h.vx /\ h.vy1 = h.vy)
    /\ Dot(h.vx, h.vy, h.nx, h.ny) < 0 => Abs(Dot(h.vx1, h.vy1, h.nx, h.ny)) <= DotSlack
    /\ Dot(h.vx1, h.vy1, h.nx, h.ny) >= -DotSlack
    /\ Abs(Cross(h.vx1, h.vy1, h.nx, h.ny) - Cross(h.vx, h.vy, h.nx, h.ny)) <= DotSlack
    /\ h.vx1 * h.vx1 + h.vy1 * h.vy1
         <= h.vx * h.vx + h.vy * h.vy + 2 * RSqrt(h.vx * h.vx + h.vy * h.vy) + 1

\* The normal of the collision h has length 1
UnitNormal(h) ==
    Abs(h.nx * h.nx + h.ny * h.ny - NormScale * NormScale) <= 4 * NormScale

\* C23: each collision handled by resolveCircleCollisions, with unit normal
\* n, changes ball.vel only by removing its inward normal component: if
\* v . n < 0 the component along n is gone afterwards, otherwise v is
\* unchanged; right after the collision v . n >= 0, the tangential component
\* of v is what it was, and the speed has not grown.  ball.vel changes in no
\* other way during the call.
C23_SlidingResponse ==
    probe.fn = "resolveCircleCollisions" =>
        /\ \A i \in 1..Len(Hits) : UnitNormal(Hits[i]) /\ Slides(Hits[i])
        /\ \A i \in 1..Len(Hits) :
              /\ Hits[i].vx = IF i = 1 THEN probe.in.vx ELSE Hits[i - 1].vx1
              /\ Hits[i].vy = IF i = 1 THEN probe.in.vy ELSE Hits[i - 1].vy1
        /\ probe.out.vx = IF Hits = <<>> THEN probe.in.vx ELSE Hits[Len(Hits)].vx1
        /\ probe.out.vy = IF Hits = <<>> THEN probe.in.vy ELSE Hits[Len(Hits)].vy1

\* C23 witness: the ball ran into the corner of a wall tile (the normal is
\* oblique) with an inward velocity, and slides on with what is left of it.
C23_Witness ==
    /\ probe.fn = "resolveCircleCollisions" /\ Hits # <<>>
    /\ Hits[1].nx # 0 /\ Hits[1].ny # 0
    /\ Dot(Hits[1].vx, Hits[1].vy, Hits[1].nx, Hits[1].ny) < -DotSlack
    /\ Abs(Cross(Hits[1].vx1, Hits[1].vy1, Hits[1].nx, Hits[1].ny)) > DotSlack
    /\ probe.out.vx # probe.in.vx /\ probe.out.vy # probe.in.vy

\* How far the centre (cx, cy) is from the edge of tile (col, row) that the
\* axis-aligned normal (nx, ny) points to
EdgeDepth(cx, cy, nx, ny, col, row, cellSize) ==
    IF nx < 0 THEN cx - col * cellSize
    ELSE IF nx > 0 THEN (col + 1) * cellSize - cx
    ELSE IF ny < 0 THEN cy - row * cellSize
    ELSE (row + 1) * cellSize - cy

\* (cx, cy) lies inside or on the box of tile (col, row)
InBox(cx, cy, col, row, cellSize) ==
    /\ col * cellSize <= cx /\ cx <= (col + 1) * cellSize
    /\ row * cellSize <= cy /\ cy <= (row + 1) * cellSize

\* The collision h, at distance 0, was resolved along the axis of least
\* penetration
LeastPenetrationPush(h, radius, cellSize) ==
    /\ InBox(h.cx, h.cy, h.col, h.row, cellSize)
    /\ <<h.nx, h.ny>> \in {<<-NormScale, 0>>, <<NormScale, 0>>,
                           <<0, -NormScale>>, <<0, NormScale>>}
    /\ \A n \in {<<-NormScale, 0>>, <<NormScale, 0>>, <<0, -NormScale>>, <<0, NormScale>>} :
          EdgeDepth(h.cx, h.cy, h.nx, h.ny, h.col, h.row, cellSize)
              <= EdgeDepth(h.cx, h.cy, n[1], n[2], h.col, h.row, cellSize)
    /\ h.cx1 = h.cx + (h.nx \div NormScale) * (radius + Bias)
    /\ h.cy1 = h.cy + (h.ny \div NormScale) * (radius + Bias)
    /\ ~InBox(h.cx1, h.cy1, h.col, h.row, cellSize)

\* C24: when the tentative centre lies inside or on a wall tile's box
\* (distance 0), resolveCircleCollisions pushes the ball out along the axis
\* of least penetration among the four box edges: the normal is the
\* axis-aligned unit vector toward the nearest edge (left, right, top or
\* bottom), the push moves the centre by radius + 0.01 along it, and that
\* takes the centre out of the tile.
C24_LeastPenetration ==
    probe.fn = "resolveCircleCollisions" =>
        \A i \in 1..Len(Hits) :
            Hits[i].dist = 0 =>
                LeastPenetrationPush(Hits[i], probe.in.radius, probe.in.cellSize)

\* C24 witness: the tentative centre was inside a wall tile, nearest to its
\* bottom edge and nearer to its right edge than to its left, and was pushed
\* down out of it; a second pass then moved the ball clear.
C24_Witness ==
    /\ probe.fn = "resolveCircleCollisions" /\ Len(Hits) >= 2
    /\ Hits[1].dist = 0 /\ Hits[1].ny = NormScale
    /\ Hits[1].cy < (Hits[1].row + 1) * probe.in.cellSize
    /\ (Hits[1].col + 1) * probe.in.cellSize - Hits[1].cx < Hits[1].cx - Hits[1].col * probe.in.cellSize
    /\ Hits[2].col = Hits[1].col /\ Hits[2].row = Hits[1].row /\ Hits[2].dist > 0

\* The passes of the resolver call just made: TRUE for a pass that collided
Passes == probe.out.passes

\* C25: resolveCircleCollisions terminates: it makes at most 4 passes over
\* the tiles around the ball, it stops after the first pass in which no
\* collision occurred, and it examines only tiles inside the grid.
C25_ResolverTerminates ==
    probe.fn = "resolveCircleCollisions" =>
        /\ Len(Passes) >= 1 /\ Len(Passes) <= maxIter
        /\ probe.out.iters = Len(Passes)
        /\ \A i \in 1..(Len(Passes) - 1) : Passes[i]
        /\ Len(Passes) < maxIter => ~Passes[Len(Passes)]
        /\ \A t \in probe.out.seen :
              /\ 0 <= t[1] /\ t[1] < probe.in.cols
              /\ 0 <= t[2] /\ t[2] < probe.in.rows

\* C25 witness: the tentative position reached over the top edge of the
\* grid, two passes collided with a wall and the third found nothing.
C25_Witness ==
    /\ probe.fn = "resolveCircleCollisions"
    /\ probe.in.nextY < probe.in.radius
    /\ Passes = <<TRUE, TRUE, FALSE>>
    /\ Cardinality(probe.out.seen) >= 2

\* Everything of the page but the two input buffers and the history of the
\* events delivered
BesideBuffers ==
    << script, phase, fetched, needsPermission, hasStartOverlay, startOverlay, permOverlay,
       permPending, currentLevel, renderInfo, startCell, goalCell, goalReached,
       animationId, pendingFrames, lastFrameTime, animationPaused, ball,
       timerState, timerStartBound, handlers, lockPrompt, idle, landscape, times, now,
       levelsJson, refresh, ran, physSteps, subs, winCount, lastDt, lastStep >>

\* (v + a * dt) * Math.exp(-friction * dt) in 1/VelScale px/s
Damped(v, a, dt) ==
    RDiv((v + RDiv(a * VelScale * dt, 1000)) * ExpFriction(dt), ExpScale)

\* C26: input events arriving between frames write only input buffers:
\* handleOrientation changes only sensorState (available, accel) and the key
\* handlers change only keyState; neither changes ball.pos, ball.vel,
\* goalReached, timerState, animationPaused or animationId, and the
\* acceleration they produce takes effect only when the next stepPhysics
\* reads it through computeAcceleration.
C26_InputsWriteOnlyBuffers ==
    [][ /\ lastOp' = "handleOrientation" =>
              /\ UNCHANGED <<BesideBuffers, keyState>>
              /\ sensorState'.enabled = sensorState.enabled
        /\ lastOp' \in {"keydown", "keyup"} =>
              UNCHANGED <<BesideBuffers, sensorState>>
        /\ (lastOp' = "loop" /\ physSteps' = physSteps + 1) =>
              /\ lastStep'.vx = Damped(ball.vx, computeAccelerationWithKeys(sensorState, keyState).ax, lastDt')
              /\ lastStep'.vy = Damped(ball.vy, computeAccelerationWithKeys(sensorState, keyState).ay, lastDt')
      ]_vars

\* C26 witness: frames have run, a tilt reading and then a key press have
\* arrived since the last one, both buffers hold them, and the ball is still
\* at rest.
C26_Witness ==
    /\ script = "game" /\ physSteps >= 2 /\ lastOp = "keydown"
    /\ keyState.right /\ sensorState.available /\ sensorState.accel.x > 0
    /\ ball.vx = 0 /\ ball.vy = 0

\* C27: at most one frame callback is scheduled at any time and steps never
\* overlap: however renderLevel, startLoop, pauseGame, resumeGame and frame
\* firings interleave, the browser holds 0 or 1 callbacks for loop,
\* animationId is the id of the pending one when there is one, and
\* stepPhysics runs at most once per fired frame (and only in a fired frame).
C27_OneFramePending ==
    /\ [](/\ Cardinality(pendingFrames) <= 1
          /\ pendingFrames # {} => pendingFrames = {animationId})
    /\ [][ /\ physSteps' \in {physSteps, physSteps + 1}
           /\ physSteps' # physSteps =>
                 /\ lastOp' = "loop"
                 /\ \E id \in pendingFrames : id \notin pendingFrames'
         ]_vars

\* C27 witness: frames have stepped the ball, the device is in portrait (which
\* paused the game) and a pointerdown has just resumed it: the startLoop of
\* resumeGame has requested the one callback that is pending.
C27_Witness ==
    /\ script = "play" /\ physSteps >= 2 /\ lastOp = "pointerdown"
    /\ ~landscape /\ ~animationPaused /\ lastFrameTime = -1
    /\ pendingFrames = {animationId}

\* The sub-step i of the last frame of the keyboard page stopped at a wall as
\* C28 says: a hit on an axis leaves the ball 0.01 outside the face of the
\* column (row) its leading edge would have entered, with no velocity on
\* that axis, and the velocity of the other axis is what it was; without a
\* hit the velocity of the axis is kept
HardStop(w, pos, radius, cellSize) ==
    /\ w.mx.hit =>
          /\ w.mx.vel = 0
          /\ w.from.vx > 0 => pos[1] + radius + Bias = w.mx.tile * cellSize
          /\ w.from.vx < 0 => pos[1] - radius - Bias = (w.mx.tile + 1) * cellSize
    /\ ~w.mx.hit => w.mx.vel = w.from.vx
    /\ w.my.hit =>
          /\ w.my.vel = 0
          /\ w.from.vy > 0 => pos[2] + radius + Bias = w.my.tile * cellSize
          /\ w.from.vy < 0 => pos[2] - radius - Bias = (w.my.tile + 1) * cellSize
    /\ ~w.my.hit => w.my.vel = w.from.vy

\* pos lies in the playfield, a radius away from its edges
InField(pos, radius, info) ==
    /\ radius <= pos[1] /\ pos[1] <= info.cols * info.cellSize - radius
    /\ radius <= pos[2] /\ pos[2] <= info.rows * info.cellSize - radius

\* A frame of the keyboard page has just run stepPhysics
SteppedSwept == script = "game" /\ lastOp = "loop" /\ lastStep.sweeps # <<>>

\* C28: in the axis-swept stepPhysics of render_game.js a wall hit on one
\* axis is a hard stop on that axis only: when the leading edge of the ball
\* would enter a wall column (row), the ball is placed 0.01 outside that wall
\* face, the velocity on that axis is set to 0 and the velocity on the other
\* axis is unchanged; after every sub-step the position is within
\* [radius, dimension * cellSize - radius] on both axes.
C28_HardStopPerAxis ==
    SteppedSwept =>
        \A i \in 1..Len(lastStep.sweeps) :
            /\ HardStop(lastStep.sweeps[i], subs[i], ball.radius, renderInfo.cellSize)
            /\ InField(subs[i], ball.radius, renderInfo)

\* C29: the simulation never runs while the device is out of the playable
\* orientation: from the handleLandscapeState call that pauses the game for a
\* non-landscape orientation until the next one that observes landscape, the
\* timer is not running and no stepPhysics call executes, whatever pointerdown
\* events and lock-prompt dismissals occur in between.
C29_NoSimulationInPortrait ==
    /\ []((phase = "ready" /\ ~landscape) => ~timerState.running)
    /\ [][(phase = "ready" /\ ~landscape) => physSteps' = physSteps]_vars

\* C30: the completion time is final: once the goal has been reached the
\* timer is stopped, the time handed to saveCompletionTime (stored as the
\* level's first time of the session) is getElapsedMs() of that moment, and
\* getElapsedMs() keeps returning it whatever pointerdown, orientation or
\* permission events follow.
C30_CompletionTimeFinal ==
    winCount > 0 =>
        /\ ~timerState.running
        /\ getElapsedMs(State) = times

=============================================================================
